---- MODULE Spec2Model ----
(***************************************************************************)
(* Client-side state-synchronisation core of the Ringer operator console:  *)
(* the roster synchroniser (useCrawlData), the App-level selection and     *)
(* draft state, the CrawlTable command handlers, the OverviewTab submit    *)
(* and export handlers and the ResultsTab record explorer.                 *)
(*                                                                         *)
(* React state cells are variables; every event handler, timer callback    *)
(* and promise continuation is one atomic action (run to completion).      *)
(* A gateway call in flight is an element of calls / pollsInFlight /       *)
(* detailsInFlight / summariesInFlight; it carries the values its closure  *)
(* captured when the handler started.                                      *)
(***************************************************************************)
EXTENDS Integers, Sequences, FiniteSets, TLC

VARIABLES
  crawls,            \* useCrawlData: roster snapshot (CrawlInfo[])
  loading,           \* useCrawlData: loading flag
  error,             \* useCrawlData: error state (Null or <<message>>)
  interval,          \* useCrawlData effect: "unset" | "set" | "cleared"
  pollsInFlight,     \* getAllCrawlInfo calls awaiting their response, in issue order
  selectedCrawl,     \* App: Null or <<CrawlInfo>>
  isNewCrawl,        \* App: draft mode
  newCrawlSpec,      \* App: the draft CrawlSpec
  activeTab,         \* App: active tab id
  isCloneModalOpen,  \* App: the clone modal is open
  selectedCrawlId,   \* CloneExistingModal: chosen crawl id ('' when none)
  selectedAnalyzer,  \* AnalyzersTab: chosen analyzer panel (initial value when unmounted)
  deleteDialog,      \* CrawlTable: [isOpen, crawl]
  actionLoading,     \* CrawlTable: Null or <<crawl_id>>
  ovLoading,         \* OverviewTab: loading flag of the create button
  calls,             \* command gateway calls awaiting their response
  notified,          \* notices the last step handed to the notification queue
  download,          \* Null or <<export response and file name>> of the download the last step started
  recordSummaries,   \* ResultsTab: summary list
  selectedRecord,    \* ResultsTab: Null or <<CrawlRecord>>
  selectedRecordId,  \* ResultsTab: pending selection ('' when none)
  selectedField,     \* ResultsTab: inspected field name
  resLoading,        \* ResultsTab: loading flag
  currentPage,       \* ResultsTab: page index
  rowsPerPage,       \* ResultsTab: page size
  sortConfig,        \* ResultsTab: [key, direction]
  summariesInFlight, \* getCrawlRecordSummaries calls awaiting their response
  detailsInFlight,   \* getCrawlRecords calls awaiting their response (ids)
  heap,              \* object store: the cell at each address (reference level)
  draftRef           \* address of the object newCrawlSpec refers to (0: none yet)

rosterVars == <<crawls, loading, error, interval, pollsInFlight>>
appVars == <<selectedCrawl, isNewCrawl, newCrawlSpec, activeTab>>
tableVars == <<deleteDialog, actionLoading>>
cloneVars == <<isCloneModalOpen, selectedCrawlId>>
resultVars == <<recordSummaries, selectedRecord, selectedRecordId, selectedField,
                resLoading, currentPage, rowsPerPage, sortConfig, summariesInFlight,
                detailsInFlight>>
uiVars == <<crawls, loading, error, interval, pollsInFlight, selectedCrawl, isNewCrawl,
            newCrawlSpec, activeTab, isCloneModalOpen, selectedCrawlId, selectedAnalyzer,
            deleteDialog,
            actionLoading, ovLoading, calls, notified, download,
            recordSummaries, selectedRecord, selectedRecordId, selectedField,
            resLoading, currentPage, rowsPerPage, sortConfig, summariesInFlight,
            detailsInFlight>>
heapVars == <<heap, draftRef>>
vars == <<uiVars, heapVars>>

(***************************************************************************)
(* Bounds                                                                  *)
(***************************************************************************)
MaxPolls == 2     \* roster polls in flight together
MaxCalls == 2     \* command calls in flight together
MaxDetails == 2   \* record detail fetches in flight together
MaxSeeds == 1     \* seed rows of the draft
MaxTerms == 1     \* keywords and regexes of the term analyzer
MaxHeap == 13     \* cells of the object store

(***************************************************************************)
(* Values                                                                  *)
(***************************************************************************)
Null == <<>>
Some(v) == <<v>>
Val(o) == o[1]

\* Strings that the code inspects character by character are sequences of
\* one-character strings.
EmptyName == <<>>
NameA == <<"a">>
NameB == <<"b">>

EmptySpec ==
  [name |-> EmptyName, seeds |-> <<>>, analyzer_specs |-> <<>>,
   worker_count |-> 1, domain_blacklist |-> <<>>]

CrawlX ==
  [crawl_spec |-> [name |-> NameA, seeds |-> <<"u">>, analyzer_specs |-> <<>>,
                   worker_count |-> 2, domain_blacklist |-> <<>>],
   crawl_status |-> [crawl_id |-> "x", current_state |-> "CREATED"]]

CrawlY ==
  [crawl_spec |-> [name |-> NameB, seeds |-> <<"v">>, analyzer_specs |-> <<>>,
                   worker_count |-> 1, domain_blacklist |-> <<>>],
   crawl_status |-> [crawl_id |-> "y", current_state |-> "RUNNING"]]

\* field_map of the prompt analyzer: output field name -> type.
ScoreField == <<"S", "c", "o", "r", "e">>
DefaultFieldMap == [k \in {ScoreField} |-> "string"]

\* A roster entry with seeds, analyzers and a blacklist.
KeywordAnalyzerZ ==
  [name |-> "KeywordScoreAnalyzer", composite_weight |-> 3,
   keywords |-> <<[keyword |-> <<"k">>, weight |-> 1]>>, regexes |-> <<>>]
DhLlmAnalyzerZ ==
  [name |-> "DhLlmScoreAnalyzer", composite_weight |-> 1,
   prompt_input |-> [prompt |-> "p"], text_inputs |-> <<>>, field_map |-> DefaultFieldMap]
CrawlZ ==
  [crawl_spec |-> [name |-> <<"a", "b">>, seeds |-> <<"u", "v">>,
                   analyzer_specs |-> <<KeywordAnalyzerZ, DhLlmAnalyzerZ>>,
                   worker_count |-> 3, domain_blacklist |-> <<"x.org">>],
   crawl_status |-> [crawl_id |-> "z", current_state |-> "STOPPED"]]

\* Roster lists the remote service may answer a poll with.
PollResponses == { <<>>, <<CrawlX>>, <<CrawlY>>, <<CrawlX, CrawlY>> }

Range(s) == { s[i] : i \in 1..Len(s) }
RemoveAt(s, i) == SubSeq(s, 1, i - 1) \o SubSeq(s, i + 1, Len(s))
IdOf(c) == c.crawl_status.crawl_id
RosterIds(cs) == { IdOf(c) : c \in Range(cs) }

(***************************************************************************)
(* Notification queue (useToast)                                           *)
(***************************************************************************)
\* The notices a handler hands to the queue, in call order; notified holds
\* those of the last step.
showError(title, message) == [type |-> "error", title |-> title, message |-> message]
showSuccess(title, message) == [type |-> "success", title |-> title, message |-> message]
Silent == notified' = <<>> /\ download' = Null

(***************************************************************************)
(* App rendering                                                           *)
(***************************************************************************)
\* App.tsx:85 shows the loading screen instead of the console.
ConsoleShown == interval = "set" /\ ~(loading /\ Len(crawls) = 0)

\* App.tsx:130,139 OverviewTab is rendered.
OverviewShown(sel, isNew, tab) == (sel # Null \/ isNew) /\ tab = "overview"

\* The OverviewTab loading cell lives as long as the component stays rendered.
OvLoadingAfter(sel, isNew, tab) ==
  IF OverviewShown(selectedCrawl, isNewCrawl, activeTab) /\ OverviewShown(sel, isNew, tab)
  THEN ovLoading ELSE FALSE

currentCrawlSpec == IF isNewCrawl THEN Some(newCrawlSpec)
                    ELSE IF selectedCrawl # Null THEN Some(Val(selectedCrawl).crawl_spec)
                    ELSE Null

(***************************************************************************)
(* Roster synchroniser (useCrawlData)                                      *)
(***************************************************************************)
FetchError == Some("Failed to fetch crawl data")

\* fetchCrawlData up to its await: one getAllCrawlInfo call is issued.
IssuePoll == pollsInFlight' = Append(pollsInFlight, [superseded |-> FALSE])

\* useEffect body: immediate fetch, then setInterval.
Activate ==
  /\ interval = "unset"
  /\ IssuePoll
  /\ interval' = "set"
  /\ Silent
  /\ UNCHANGED <<crawls, loading, error, appVars, tableVars, ovLoading, calls, resultVars, cloneVars, selectedAnalyzer, heapVars>>

\* Mutant of Tick: the timer keeps firing after clearInterval.
Tick_AfterClear ==
  /\ interval # "unset"
  /\ Len(pollsInFlight) < MaxPolls
  /\ IssuePoll
  /\ Silent
  /\ UNCHANGED <<crawls, loading, error, interval, appVars, tableVars, ovLoading, calls, resultVars, cloneVars, selectedAnalyzer, heapVars>>

\* setInterval callback.
Tick ==
  /\ interval = "set"
  /\ Len(pollsInFlight) < MaxPolls
  /\ IssuePoll
  /\ Silent
  /\ UNCHANGED <<crawls, loading, error, interval, appVars, tableVars, ovLoading, calls, resultVars, cloneVars, selectedAnalyzer, heapVars>>

\* useEffect cleanup: clearInterval.
Deactivate ==
  /\ interval = "set"
  /\ interval' = "cleared"
  /\ Silent
  /\ UNCHANGED <<crawls, loading, error, pollsInFlight, appVars, tableVars, ovLoading,
                 calls, resultVars, cloneVars, selectedAnalyzer, heapVars>>

\* Polls issued before poll i are older than the snapshot it installs.
MarkOlder(i) ==
  [j \in 1..(Len(pollsInFlight) - 1) |->
     IF j < i THEN [superseded |-> TRUE] ELSE RemoveAt(pollsInFlight, i)[j]]

\* fetchCrawlData continuation, try branch, then finally.
PollSucceeds(i, response) ==
  /\ i \in 1..Len(pollsInFlight)
  /\ crawls' = response
  /\ error' = Null
  /\ loading' = FALSE
  /\ pollsInFlight' = MarkOlder(i)
  /\ Silent
  /\ UNCHANGED <<interval, appVars, tableVars, ovLoading, calls, resultVars, cloneVars, selectedAnalyzer, heapVars>>

\* Mutant of PollFails: the catch branch also empties the roster.
PollFails_ClearsRoster(i) ==
  /\ i \in 1..Len(pollsInFlight)
  /\ crawls' = <<>>
  /\ error' = FetchError
  /\ loading' = FALSE
  /\ pollsInFlight' = RemoveAt(pollsInFlight, i)
  /\ notified' = IF error = Null
                 THEN <<showError("Connection Error", "Failed to fetch crawl data")>>
                 ELSE <<>>
  /\ download' = Null
  /\ UNCHANGED <<interval, appVars, tableVars, ovLoading, calls, resultVars, cloneVars, selectedAnalyzer, heapVars>>

\* Mutant of PollFails: the catch branch clears the interval timer.
PollFails_StopsPolling(i) ==
  /\ i \in 1..Len(pollsInFlight)
  /\ error' = FetchError
  /\ loading' = FALSE
  /\ pollsInFlight' = RemoveAt(pollsInFlight, i)
  /\ interval' = "cleared"
  /\ notified' = IF error = Null
                 THEN <<showError("Connection Error", "Failed to fetch crawl data")>>
                 ELSE <<>>
  /\ download' = Null
  /\ UNCHANGED <<crawls, appVars, tableVars, ovLoading, calls, resultVars, cloneVars,
                 selectedAnalyzer, heapVars>>

\* Mutant of PollFails: the toast is shown on every failure.
PollFails_AlwaysNotifies(i) ==
  /\ i \in 1..Len(pollsInFlight)
  /\ error' = FetchError
  /\ loading' = FALSE
  /\ pollsInFlight' = RemoveAt(pollsInFlight, i)
  /\ notified' = <<showError("Connection Error", "Failed to fetch crawl data")>>
  /\ download' = Null
  /\ UNCHANGED <<crawls, interval, appVars, tableVars, ovLoading, calls, resultVars, cloneVars, selectedAnalyzer, heapVars>>

\* fetchCrawlData continuation, catch branch, then finally; the App effect
\* on [error] shows the toast when the error cell changes to a message.
PollFails(i) ==
  /\ i \in 1..Len(pollsInFlight)
  /\ error' = FetchError
  /\ loading' = FALSE
  /\ pollsInFlight' = RemoveAt(pollsInFlight, i)
  /\ notified' = IF error = Null
                 THEN <<showError("Connection Error", "Failed to fetch crawl data")>>
                 ELSE <<>>
  /\ download' = Null
  /\ UNCHANGED <<crawls, interval, appVars, tableVars, ovLoading, calls, resultVars, cloneVars, selectedAnalyzer, heapVars>>

(***************************************************************************)
(* App handlers                                                            *)
(***************************************************************************)
\* Mutant of handleNewCrawl: the draft in hand is kept.
handleNewCrawl_KeepsDraft ==
  /\ ConsoleShown
  /\ isNewCrawl' = TRUE
  /\ selectedCrawl' = Null
  /\ activeTab' = "overview"
  /\ selectedAnalyzer' = "Term Matching"
  /\ UNCHANGED newCrawlSpec
  /\ ovLoading' = OvLoadingAfter(Null, TRUE, "overview")
  /\ Silent
  /\ UNCHANGED <<rosterVars, tableVars, calls, resultVars, cloneVars, heapVars>>

handleNewCrawl ==
  /\ ConsoleShown
  /\ isNewCrawl' = TRUE
  /\ selectedCrawl' = Null
  /\ activeTab' = "overview"
  /\ selectedAnalyzer' = "Term Matching"
  /\ newCrawlSpec' = EmptySpec
  /\ ovLoading' = OvLoadingAfter(Null, TRUE, "overview")
  /\ Silent
  /\ UNCHANGED <<rosterVars, tableVars, calls, resultVars, cloneVars, heapVars>>

\* Mutant of SelectCrawlEffect: setIsNewCrawl(false) is left out.
SelectCrawlEffect_KeepsDraftMode(crawl) ==
  /\ UNCHANGED isNewCrawl
  /\ selectedCrawl' = crawl
  /\ activeTab' = "overview"
  /\ selectedAnalyzer' = "Term Matching"
  /\ ovLoading' = OvLoadingAfter(crawl, isNewCrawl, "overview")

\* The state changes of handleSelectCrawl(crawl), crawl being Null or <<CrawlInfo>>.
SelectCrawlEffect(crawl) ==
  /\ isNewCrawl' = FALSE
  /\ selectedCrawl' = crawl
  /\ activeTab' = "overview"
  /\ selectedAnalyzer' = "Term Matching"
  /\ ovLoading' = OvLoadingAfter(crawl, FALSE, "overview")

\* Row click in CrawlTable: onSelectCrawl(crawl).
handleSelectCrawl(crawl) ==
  /\ ConsoleShown
  /\ crawl \in Range(crawls)
  /\ SelectCrawlEffect(Some(crawl))
  /\ Silent
  /\ UNCHANGED <<rosterVars, newCrawlSpec, tableVars, calls, resultVars, cloneVars, heapVars>>

\* onTabChange={setActiveTab}, offered while the tab panel is rendered.
handleTabChange(tab) ==
  /\ ConsoleShown
  /\ selectedCrawl # Null \/ isNewCrawl
  /\ tab # activeTab
  /\ activeTab' = tab
  /\ selectedAnalyzer' = "Term Matching"
  /\ ovLoading' = OvLoadingAfter(selectedCrawl, isNewCrawl, tab)
  /\ Silent
  /\ UNCHANGED <<rosterVars, selectedCrawl, isNewCrawl, newCrawlSpec, tableVars, calls, resultVars, cloneVars, heapVars>>

\* Dropdown item 'Clone Existing' (disabled while the roster is empty).
openCloneModal ==
  /\ ConsoleShown
  /\ Len(crawls) > 0
  /\ isCloneModalOpen' = TRUE
  /\ Silent
  /\ UNCHANGED <<rosterVars, appVars, tableVars, ovLoading, calls, resultVars, selectedCrawlId, selectedAnalyzer, heapVars>>

\* CloneExistingModal: the select of the crawl to clone.
setSelectedCrawlId(id) ==
  /\ ConsoleShown /\ isCloneModalOpen
  /\ id \in RosterIds(crawls) \cup {""}
  /\ id # selectedCrawlId
  /\ selectedCrawlId' = id
  /\ Silent
  /\ UNCHANGED <<rosterVars, appVars, tableVars, ovLoading, calls, resultVars, isCloneModalOpen, selectedAnalyzer, heapVars>>

\* CloneExistingModal.handleClose: Cancel, the close button, the backdrop.
handleClose ==
  /\ ConsoleShown /\ isCloneModalOpen
  /\ selectedCrawlId' = ""
  /\ isCloneModalOpen' = FALSE
  /\ Silent
  /\ UNCHANGED <<rosterVars, appVars, tableVars, ovLoading, calls, resultVars, selectedAnalyzer, heapVars>>

\* `${name} (Copy)`
CopySuffix == <<" ", "(", "C", "o", "p", "y", ")">>

\* Mutant of handleCloneExisting: the clone keeps the name of its source.
handleCloneExisting_SameName(crawlToClone) ==
  /\ newCrawlSpec' = crawlToClone.crawl_spec
  /\ isNewCrawl' = TRUE
  /\ selectedCrawl' = Null
  /\ activeTab' = "overview"
  /\ selectedAnalyzer' = "Term Matching"
  /\ isCloneModalOpen' = FALSE
  /\ ovLoading' = OvLoadingAfter(Null, TRUE, "overview")
  /\ notified' = <<showSuccess("Crawl Cloned", crawlToClone.crawl_spec.name)>>
  /\ download' = Null

\* App.handleCloneExisting(crawlToClone).
handleCloneExisting(crawlToClone) ==
  /\ newCrawlSpec' = [crawlToClone.crawl_spec EXCEPT !.name = @ \o CopySuffix]
  /\ isNewCrawl' = TRUE
  /\ selectedCrawl' = Null
  /\ activeTab' = "overview"
  /\ selectedAnalyzer' = "Term Matching"
  /\ isCloneModalOpen' = FALSE
  /\ ovLoading' = OvLoadingAfter(Null, TRUE, "overview")
  /\ notified' = <<showSuccess("Crawl Cloned", crawlToClone.crawl_spec.name)>>
  /\ download' = Null

\* CloneExistingModal.handleClone: the Clone button (disabled while no id is
\* chosen); crawls.find takes the first roster entry with the chosen id.
handleClone ==
  /\ ConsoleShown /\ isCloneModalOpen
  /\ selectedCrawlId # ""
  /\ \E i \in 1..Len(crawls) :
        /\ IdOf(crawls[i]) = selectedCrawlId
        /\ \A j \in 1..(i - 1) : IdOf(crawls[j]) # selectedCrawlId
        /\ handleCloneExisting(crawls[i])
  /\ UNCHANGED <<rosterVars, tableVars, calls, resultVars, selectedCrawlId, heapVars>>

(***************************************************************************)
(* Command calls                                                           *)
(***************************************************************************)
\* A call in flight with what its handler's closure holds: the crawl it
\* targets, the selectedCrawl prop of the render the handler belongs to and
\* the crawl_spec it sends.
Call(op, target, selected, spec) ==
  [op |-> op, target |-> target, selected |-> selected, spec |-> spec]

CanCall == Len(calls) < MaxCalls
IsCall(i, op) == i \in 1..Len(calls) /\ calls[i].op = op

(***************************************************************************)
(* CrawlTable handlers                                                     *)
(***************************************************************************)
\* CrawlTable row: isLoading disables the row's buttons.
isLoading(crawl) == actionLoading = Some(IdOf(crawl))

handleStartCrawl(crawl) ==
  /\ ConsoleShown /\ CanCall
  /\ crawl \in Range(crawls)
  /\ crawl.crawl_status.current_state # "RUNNING"
  /\ ~isLoading(crawl)
  /\ actionLoading' = Some(IdOf(crawl))
  /\ calls' = Append(calls, Call("start", Some(crawl), Null, Null))
  /\ Silent
  /\ UNCHANGED <<rosterVars, appVars, deleteDialog, ovLoading, resultVars, cloneVars, selectedAnalyzer, heapVars>>

StartSucceeds(i) ==
  /\ IsCall(i, "start")
  /\ notified' = <<showSuccess("Crawl Started", "Successfully started crawl")>>
  /\ download' = Null
  /\ actionLoading' = Null
  /\ calls' = RemoveAt(calls, i)
  /\ UNCHANGED <<rosterVars, appVars, deleteDialog, ovLoading, resultVars, cloneVars, selectedAnalyzer, heapVars>>

StartFails(i) ==
  /\ IsCall(i, "start")
  /\ notified' = <<showError("Start Failed", "Failed to start crawl")>>
  /\ download' = Null
  /\ actionLoading' = Null
  /\ calls' = RemoveAt(calls, i)
  /\ UNCHANGED <<rosterVars, appVars, deleteDialog, ovLoading, resultVars, cloneVars, selectedAnalyzer, heapVars>>

handleStopCrawl(crawl) ==
  /\ ConsoleShown /\ CanCall
  /\ crawl \in Range(crawls)
  /\ crawl.crawl_status.current_state = "RUNNING"
  /\ ~isLoading(crawl)
  /\ actionLoading' = Some(IdOf(crawl))
  /\ calls' = Append(calls, Call("stop", Some(crawl), Null, Null))
  /\ Silent
  /\ UNCHANGED <<rosterVars, appVars, deleteDialog, ovLoading, resultVars, cloneVars, selectedAnalyzer, heapVars>>

StopSucceeds(i) ==
  /\ IsCall(i, "stop")
  /\ notified' = <<showSuccess("Crawl Stopped", "Successfully stopped crawl")>>
  /\ download' = Null
  /\ actionLoading' = Null
  /\ calls' = RemoveAt(calls, i)
  /\ UNCHANGED <<rosterVars, appVars, deleteDialog, ovLoading, resultVars, cloneVars, selectedAnalyzer, heapVars>>

StopFails(i) ==
  /\ IsCall(i, "stop")
  /\ notified' = <<showError("Stop Failed", "Failed to stop crawl")>>
  /\ download' = Null
  /\ actionLoading' = Null
  /\ calls' = RemoveAt(calls, i)
  /\ UNCHANGED <<rosterVars, appVars, deleteDialog, ovLoading, resultVars, cloneVars, selectedAnalyzer, heapVars>>

DialogClosed == [isOpen |-> FALSE, crawl |-> Null]

\* Mutant of openDeleteDialog: the row's delete button dispatches the call
\* itself instead of opening the dialog.
openDeleteDialog_Dispatches(crawl) ==
  /\ ConsoleShown /\ CanCall
  /\ crawl \in Range(crawls)
  /\ ~isLoading(crawl)
  /\ actionLoading' = Some(IdOf(crawl))
  /\ calls' = Append(calls, Call("delete", Some(crawl), selectedCrawl, Null))
  /\ Silent
  /\ UNCHANGED <<rosterVars, appVars, deleteDialog, ovLoading, resultVars, cloneVars, selectedAnalyzer, heapVars>>

\* Delete button of a row: setDeleteDialog({ isOpen: true, crawl }).
openDeleteDialog(crawl) ==
  /\ ConsoleShown
  /\ crawl \in Range(crawls)
  /\ ~isLoading(crawl)
  /\ deleteDialog' = [isOpen |-> TRUE, crawl |-> Some(crawl)]
  /\ Silent
  /\ UNCHANGED <<rosterVars, appVars, actionLoading, ovLoading, calls, resultVars, cloneVars, selectedAnalyzer, heapVars>>

\* ConfirmDialog Cancel button: onCancel.
cancelDeleteDialog ==
  /\ ConsoleShown
  /\ deleteDialog.isOpen
  /\ deleteDialog' = DialogClosed
  /\ Silent
  /\ UNCHANGED <<rosterVars, appVars, actionLoading, ovLoading, calls, resultVars, cloneVars, selectedAnalyzer, heapVars>>

\* ConfirmDialog Delete button: onConfirm = handleDeleteCrawl, up to its await.
handleDeleteCrawl ==
  /\ ConsoleShown /\ CanCall
  /\ deleteDialog.isOpen
  /\ deleteDialog.crawl # Null
  /\ actionLoading' = Some(IdOf(Val(deleteDialog.crawl)))
  /\ calls' = Append(calls, Call("delete", deleteDialog.crawl, selectedCrawl, Null))
  /\ Silent
  /\ UNCHANGED <<rosterVars, appVars, deleteDialog, ovLoading, resultVars, cloneVars, selectedAnalyzer, heapVars>>

\* part_003:326 the test that decides onSelectCrawl(null); both
\* operands are the values captured by the handler's closure.
DeletedIsSelected(call) ==
  /\ call.selected # Null
  /\ IdOf(Val(call.selected)) = IdOf(Val(call.target))

\* Mutant of DeleteSucceeds: the deleted crawl is also taken out of the roster.
DeleteSucceeds_RemovesRow(i) ==
  /\ IsCall(i, "delete")
  /\ notified' = <<showSuccess("Crawl Deleted", "Successfully deleted crawl")>>
  /\ download' = Null
  /\ deleteDialog' = DialogClosed
  /\ IF DeletedIsSelected(calls[i])
     THEN SelectCrawlEffect(Null)
     ELSE UNCHANGED <<isNewCrawl, selectedCrawl, activeTab, ovLoading, selectedAnalyzer>>
  /\ actionLoading' = Null
  /\ calls' = RemoveAt(calls, i)
  /\ crawls' = SelectSeq(crawls, LAMBDA c : IdOf(c) # IdOf(Val(calls[i].target)))
  /\ UNCHANGED <<loading, error, interval, pollsInFlight, newCrawlSpec, resultVars,
                 cloneVars, heapVars>>

DeleteSucceeds(i) ==
  /\ IsCall(i, "delete")
  /\ notified' = <<showSuccess("Crawl Deleted", "Successfully deleted crawl")>>
  /\ download' = Null
  /\ deleteDialog' = DialogClosed
  /\ IF DeletedIsSelected(calls[i])
     THEN SelectCrawlEffect(Null)
     ELSE UNCHANGED <<isNewCrawl, selectedCrawl, activeTab, ovLoading, cloneVars, selectedAnalyzer, heapVars>>
  /\ actionLoading' = Null
  /\ calls' = RemoveAt(calls, i)
  /\ UNCHANGED <<rosterVars, newCrawlSpec, resultVars, cloneVars, heapVars>>

DeleteFails(i) ==
  /\ IsCall(i, "delete")
  /\ notified' = <<showError("Delete Failed", "Failed to delete crawl")>>
  /\ download' = Null
  /\ actionLoading' = Null
  /\ calls' = RemoveAt(calls, i)
  /\ UNCHANGED <<rosterVars, appVars, deleteDialog, ovLoading, resultVars, cloneVars, selectedAnalyzer, heapVars>>

(***************************************************************************)
(* String helpers used by validation                                       *)
(***************************************************************************)
Whitespace == {" ", "\t"}

\* String.prototype.trim
RECURSIVE trimStart(_)
trimStart(s) == IF s # <<>> /\ Head(s) \in Whitespace THEN trimStart(Tail(s)) ELSE s
RECURSIVE trimEnd(_)
trimEnd(s) ==
  IF s # <<>> /\ s[Len(s)] \in Whitespace THEN trimEnd(SubSeq(s, 1, Len(s) - 1)) ELSE s
trim(s) == trimEnd(trimStart(s))

\* String.prototype.toLowerCase over the letters that occur in names and ids.
lowerChar(c) ==
  CASE c = "A" -> "a" [] c = "B" -> "b" [] c = "C" -> "c" [] c = "Q" -> "q" [] OTHER -> c
toLowerCase(s) == [i \in 1..Len(s) |-> lowerChar(s[i])]

(***************************************************************************)
(* OverviewTab handlers                                                    *)
(***************************************************************************)
\* The editors are rendered with crawlSpec = currentCrawlSpec and write
\* through onCrawlSpecChange = setNewCrawlSpec; their inputs are disabled
\* unless isNewCrawl.
OverviewEditable ==
  ConsoleShown /\ OverviewShown(selectedCrawl, isNewCrawl, activeTab) /\ isNewCrawl

\* Mutant of handleNameChange: the new name is put on a blank draft.
handleNameChange_OnBlankDraft(name) ==
  /\ OverviewEditable
  /\ currentCrawlSpec # Null
  /\ newCrawlSpec' = [EmptySpec EXCEPT !.name = name]
  /\ Silent
  /\ UNCHANGED <<rosterVars, selectedCrawl, isNewCrawl, activeTab, tableVars, ovLoading,
                 calls, resultVars, cloneVars, selectedAnalyzer, heapVars>>

handleNameChange(name) ==
  /\ OverviewEditable
  /\ currentCrawlSpec # Null
  /\ newCrawlSpec' = [Val(currentCrawlSpec) EXCEPT !.name = name]
  /\ Silent
  /\ UNCHANGED <<rosterVars, selectedCrawl, isNewCrawl, activeTab, tableVars, ovLoading,
                 calls, resultVars, cloneVars, selectedAnalyzer, heapVars>>

\* onChange: handleWorkerCountChange(parseInt(e.target.value) || 1)
parsedOrOne(n) == IF n = 0 THEN 1 ELSE n

handleWorkerCountChange(workerCount) ==
  /\ OverviewEditable
  /\ currentCrawlSpec # Null
  /\ newCrawlSpec' = [Val(currentCrawlSpec) EXCEPT !.worker_count = workerCount]
  /\ Silent
  /\ UNCHANGED <<rosterVars, selectedCrawl, isNewCrawl, activeTab, tableVars, ovLoading,
                 calls, resultVars, cloneVars, selectedAnalyzer, heapVars>>

\* Mutant of isDuplicateName: the names are compared case-sensitively.
isDuplicateName_CaseSensitive(existingCrawls, name) ==
  \E crawl \in Range(existingCrawls) : crawl.crawl_spec.name = name

isDuplicateName(existingCrawls, name) ==
  \E crawl \in Range(existingCrawls) :
     toLowerCase(crawl.crawl_spec.name) = toLowerCase(name)

\* Mutant of ValidationError: the worker-count check is missing.
ValidationError_NoWorkerCheck(crawlSpec, existingCrawls) ==
  IF crawlSpec = Null \/ trim(Val(crawlSpec).name) = <<>>
    THEN "Crawl name is required"
  ELSE IF \E crawl \in Range(existingCrawls) :
            toLowerCase(crawl.crawl_spec.name) = toLowerCase(Val(crawlSpec).name)
    THEN "A crawl with this name already exists. Please choose a different name."
  ELSE IF Len(Val(crawlSpec).seeds) = 0
    THEN "At least one seed URL is required"
  ELSE ""

\* The validation ladder of handleSubmitCrawl: the message of the first
\* failing check, or "" when the draft passes.
ValidationError(crawlSpec, existingCrawls) ==
  IF crawlSpec = Null \/ trim(Val(crawlSpec).name) = <<>>
    THEN "Crawl name is required"
  ELSE IF isDuplicateName(existingCrawls, Val(crawlSpec).name)
    THEN "A crawl with this name already exists. Please choose a different name."
  ELSE IF Len(Val(crawlSpec).seeds) = 0
    THEN "At least one seed URL is required"
  ELSE IF Val(crawlSpec).worker_count < 1 \/ Val(crawlSpec).worker_count > 16
    THEN "Worker count must be between 1 and 16"
  ELSE ""

\* Create button (rendered in draft mode, disabled while loading):
\* handleSubmitCrawl up to its first return or its await.
handleSubmitCrawl ==
  /\ OverviewEditable
  /\ ~ovLoading
  /\ LET message == ValidationError(currentCrawlSpec, crawls) IN
     IF message # ""
     THEN
          /\ notified' = <<showError("Validation Error", message)>>
          /\ download' = Null
          /\ UNCHANGED <<ovLoading, calls, cloneVars, selectedAnalyzer, heapVars>>
     ELSE /\ CanCall
          /\ ovLoading' = TRUE
          /\ calls' = Append(calls, Call("create", Null, Null, currentCrawlSpec))
          /\ Silent
  /\ UNCHANGED <<rosterVars, appVars, tableVars, resultVars, cloneVars, selectedAnalyzer, heapVars>>

\* handleCrawlCreated
CrawlCreatedEffect ==
  /\ isNewCrawl' = FALSE
  /\ selectedCrawl' = Null

\* Mutant of CreateSucceeds: onCrawlCreated() is not called.
CreateSucceeds_StaysInDraft(i) ==
  /\ IsCall(i, "create")
  /\ notified' = <<showSuccess("Crawl Created", "Successfully created crawl")>>
  /\ download' = Null
  /\ ovLoading' = FALSE
  /\ calls' = RemoveAt(calls, i)
  /\ UNCHANGED <<rosterVars, appVars, tableVars, resultVars, cloneVars,
                 selectedAnalyzer, heapVars>>

CreateSucceeds(i) ==
  /\ IsCall(i, "create")
  /\ notified' = <<showSuccess("Crawl Created", "Successfully created crawl")>>
  /\ download' = Null
  /\ CrawlCreatedEffect
  /\ ovLoading' = FALSE
  /\ calls' = RemoveAt(calls, i)
  /\ UNCHANGED <<rosterVars, newCrawlSpec, activeTab, tableVars, resultVars, cloneVars, selectedAnalyzer, heapVars>>

\* Mutant of CreateFails: onCrawlCreated() runs in the finally branch.
CreateFails_LeavesDraftMode(i) ==
  /\ IsCall(i, "create")
  /\ notified' = <<showError("Creation Failed", "Failed to create crawl")>>
  /\ download' = Null
  /\ CrawlCreatedEffect
  /\ ovLoading' = FALSE
  /\ calls' = RemoveAt(calls, i)
  /\ UNCHANGED <<rosterVars, newCrawlSpec, activeTab, tableVars, resultVars, cloneVars,
                 selectedAnalyzer, heapVars>>

CreateFails(i) ==
  /\ IsCall(i, "create")
  /\ notified' = <<showError("Creation Failed", "Failed to create crawl")>>
  /\ download' = Null
  /\ ovLoading' = FALSE
  /\ calls' = RemoveAt(calls, i)
  /\ UNCHANGED <<rosterVars, appVars, tableVars, resultVars, cloneVars, selectedAnalyzer, heapVars>>

\* Export Params button (rendered when a crawl is selected).
handleExportParams ==
  /\ ConsoleShown /\ CanCall
  /\ OverviewShown(selectedCrawl, isNewCrawl, activeTab)
  /\ selectedCrawl # Null
  /\ calls' = Append(calls, Call("export", selectedCrawl, Null, Null))
  /\ Silent
  /\ UNCHANGED <<rosterVars, appVars, tableVars, ovLoading, resultVars, cloneVars, selectedAnalyzer, heapVars>>

\* Mutant of ExportSucceeds: a successful export emits no notice.
ExportSucceeds_Silent(i) ==
  /\ IsCall(i, "export")
  /\ calls' = RemoveAt(calls, i)
  /\ Silent
  /\ UNCHANGED <<rosterVars, appVars, tableVars, ovLoading, resultVars, cloneVars, selectedAnalyzer, heapVars>>

\* Text is a sequence of characters.
FilenameKey == <<"f", "i", "l", "e", "n", "a", "m", "e", "=">>
SpecPrefix == <<"c", "r", "a", "w", "l", "_", "s", "p", "e", "c", "_">>
JsonSuffix == <<".", "j", "s", "o", "n">>
Quote == "\""

\* contentDisposition.match(/filename=(.+)/): the leftmost place where
\* "filename=" is followed by at least one character; Null when there is none.
filenameMatch(contentDisposition) ==
  LET n == Len(FilenameKey)
      places == { p \in 1..(Len(contentDisposition) - n) :
                    SubSeq(contentDisposition, p, p + n - 1) = FilenameKey }
  IN IF places = {} THEN Null
     ELSE LET p == CHOOSE q \in places : \A r \in places : q <= r
          IN Some(SubSeq(contentDisposition, p + n, Len(contentDisposition)))

\* text.replace(/"/g, '')
RECURSIVE WithoutQuotes(_)
WithoutQuotes(text) ==
  IF text = <<>> THEN <<>>
  ELSE (IF Head(text) = Quote THEN <<>> ELSE <<Head(text)>>) \o WithoutQuotes(Tail(text))

\* crawlApi.exportCrawlSpec: the name given to the download; the header is
\* Null when the response has none.
exportFilename(crawlId, contentDisposition) ==
  LET synthesized == SpecPrefix \o <<crawlId>> \o JsonSuffix
  IN IF contentDisposition = Null \/ Val(contentDisposition) = <<>>
     THEN synthesized
     ELSE LET match == filenameMatch(Val(contentDisposition))
          IN IF match = Null THEN synthesized ELSE WithoutQuotes(Val(match))

\* content-disposition headers of export responses.
Inline == <<"i", "n", "l", "i", "n", "e">>
Separator == <<";", " ">>
QuotedName == <<"\"", "a", ".", "j", "s", "o", "n", "\"">>
PlainName == <<"a", ".", "j", "s", "o", "n">>
ExportHeaders ==
  { Null,
    Some(<<>>),
    Some(Inline),
    Some(Inline \o Separator \o FilenameKey \o PlainName),
    Some(Inline \o Separator \o FilenameKey \o QuotedName),
    Some(Inline \o Separator \o FilenameKey \o QuotedName \o Separator \o <<"x", "=", "1">>),
    Some(Inline \o Separator \o FilenameKey) }

\* handleExportParams continuation, try branch: exportCrawlSpec has named
\* the download after the response's content-disposition header.
ExportResponds(i, contentDisposition) ==
  /\ IsCall(i, "export")
  /\ LET crawlId == IdOf(Val(calls[i].target))
     IN download' = Some([crawlId |-> crawlId,
                          contentDisposition |-> contentDisposition,
                          filename |-> exportFilename(crawlId, contentDisposition)])
  /\ notified' = <<showSuccess("Export Started", "Crawl specification download started")>>
  /\ calls' = RemoveAt(calls, i)
  /\ UNCHANGED <<rosterVars, appVars, tableVars, ovLoading, resultVars, cloneVars, selectedAnalyzer, heapVars>>

\* The same for a response without a content-disposition header.
ExportSucceeds(i) ==
  /\ IsCall(i, "export")
  /\ ExportResponds(i, Null)

ExportFails(i) ==
  /\ IsCall(i, "export")
  /\ notified' = <<showError("Export Failed", "Failed to export crawl specification")>>
  /\ download' = Null
  /\ calls' = RemoveAt(calls, i)
  /\ UNCHANGED <<rosterVars, appVars, tableVars, ovLoading, resultVars, cloneVars, selectedAnalyzer, heapVars>>

(***************************************************************************)
(* SourcesTab handlers                                                     *)
(***************************************************************************)
\* Mutant of SourcesEditable: the seed rows stay enabled outside draft mode.
SourcesEditable_Always ==
  ConsoleShown /\ activeTab = "sources" /\ (selectedCrawl # Null \/ isNewCrawl)

SourcesEditable ==
  ConsoleShown /\ activeTab = "sources" /\ isNewCrawl

handleAddUrl ==
  /\ SourcesEditable
  /\ currentCrawlSpec # Null
  /\ Len(Val(currentCrawlSpec).seeds) < MaxSeeds
  /\ newCrawlSpec' = [Val(currentCrawlSpec) EXCEPT !.seeds = Append(@, "")]
  /\ Silent
  /\ UNCHANGED <<rosterVars, selectedCrawl, isNewCrawl, activeTab, tableVars, ovLoading,
                 calls, resultVars, cloneVars, selectedAnalyzer, heapVars>>

handleUrlChange(index, url) ==
  /\ SourcesEditable
  /\ currentCrawlSpec # Null
  /\ index \in 1..Len(Val(currentCrawlSpec).seeds)
  /\ newCrawlSpec' = [Val(currentCrawlSpec) EXCEPT !.seeds = [@ EXCEPT ![index] = url]]
  /\ Silent
  /\ UNCHANGED <<rosterVars, selectedCrawl, isNewCrawl, activeTab, tableVars, ovLoading,
                 calls, resultVars, cloneVars, selectedAnalyzer, heapVars>>

handleRemoveUrl(index) ==
  /\ SourcesEditable
  /\ currentCrawlSpec # Null
  /\ index \in 1..Len(Val(currentCrawlSpec).seeds)
  /\ newCrawlSpec' = [Val(currentCrawlSpec) EXCEPT !.seeds = RemoveAt(@, index)]
  /\ Silent
  /\ UNCHANGED <<rosterVars, selectedCrawl, isNewCrawl, activeTab, tableVars, ovLoading,
                 calls, resultVars, cloneVars, selectedAnalyzer, heapVars>>

\* urls.filter(url => !seeds.includes(url))
RECURSIVE uniqueUrls(_, _)
uniqueUrls(urls, seeds) ==
  IF urls = <<>> THEN <<>>
  ELSE (IF Head(urls) \in Range(seeds) THEN <<>> ELSE <<Head(urls)>>)
         \o uniqueUrls(Tail(urls), seeds)

\* SearchEngineModal 'Add Selected': onAddUrls(urls).
handleAddSearchUrls(urls) ==
  /\ SourcesEditable
  /\ currentCrawlSpec # Null
  /\ Len(Val(currentCrawlSpec).seeds) <= MaxSeeds
  /\ newCrawlSpec' = [Val(currentCrawlSpec) EXCEPT !.seeds = @ \o uniqueUrls(urls, @)]
  /\ Silent
  /\ UNCHANGED <<rosterVars, selectedCrawl, isNewCrawl, activeTab, tableVars, ovLoading,
                 calls, resultVars, cloneVars, selectedAnalyzer, heapVars>>

(***************************************************************************)
(* AnalyzersTab handlers                                                   *)
(***************************************************************************)
AnalyzersEditable ==
  /\ ConsoleShown
  /\ selectedCrawl # Null \/ isNewCrawl
  /\ activeTab = "analyzers"
  /\ isNewCrawl

\* analyzer[field] || fallback, and { ...analyzer, field: value }
FieldOr(analyzer, field, fallback) ==
  IF field \in DOMAIN analyzer THEN analyzer[field] ELSE fallback
With(analyzer, field, value) ==
  [k \in DOMAIN analyzer \cup {field} |-> IF k = field THEN value ELSE analyzer[k]]

\* findIndex(spec => spec.name === name), 0 when there is none.
findIndex(specs, name) ==
  IF \E i \in 1..Len(specs) : specs[i].name = name
  THEN CHOOSE i \in 1..Len(specs) :
         specs[i].name = name /\ \A j \in 1..(i - 1) : specs[j].name # name
  ELSE 0

getOrCreateAnalyzer(name) ==
  LET specs == IF currentCrawlSpec = Null THEN <<>> ELSE Val(currentCrawlSpec).analyzer_specs
  IN IF findIndex(specs, name) > 0 THEN specs[findIndex(specs, name)]
     ELSE IF name = "KeywordScoreAnalyzer"
     THEN [name |-> "KeywordScoreAnalyzer", composite_weight |-> 1,
           keywords |-> <<>>, regexes |-> <<>>]
     ELSE IF name = "DhLlmScoreAnalyzer"
     THEN [name |-> "DhLlmScoreAnalyzer", composite_weight |-> 1,
           prompt_input |-> [prompt |-> ""], text_inputs |-> <<>>,
           field_map |-> DefaultFieldMap]
     ELSE [name |-> name, composite_weight |-> 1]

\* The analyzer the panel shows, computed on every render of AnalyzersTab.
currentAnalyzer ==
  getOrCreateAnalyzer(IF selectedAnalyzer = "Term Matching" THEN "KeywordScoreAnalyzer"
                      ELSE "DhLlmScoreAnalyzer")

\* Mutant of setSelectedAnalyzer: showing a panel stores the analyzer it shows
\* in the draft when the draft has none of that name.
setSelectedAnalyzer_Commits(analyzer) ==
  /\ ConsoleShown
  /\ selectedCrawl # Null \/ isNewCrawl
  /\ activeTab = "analyzers"
  /\ analyzer # selectedAnalyzer
  /\ selectedAnalyzer' = analyzer
  /\ newCrawlSpec' =
       IF isNewCrawl /\ findIndex(newCrawlSpec.analyzer_specs, "DhLlmScoreAnalyzer") = 0
                     /\ analyzer = "DH LLM Prompt"
       THEN [newCrawlSpec EXCEPT !.analyzer_specs =
               Append(@, getOrCreateAnalyzer("DhLlmScoreAnalyzer"))]
       ELSE newCrawlSpec
  /\ Silent
  /\ UNCHANGED <<rosterVars, selectedCrawl, isNewCrawl, activeTab, tableVars, ovLoading,
                 calls, resultVars, cloneVars, heapVars>>

\* The buttons 'Term Matching' and 'DH LLM Prompt' of AnalyzersTab (enabled in
\* draft mode and while viewing a roster entry).
setSelectedAnalyzer(analyzer) ==
  /\ ConsoleShown
  /\ selectedCrawl # Null \/ isNewCrawl
  /\ activeTab = "analyzers"
  /\ analyzer # selectedAnalyzer
  /\ selectedAnalyzer' = analyzer
  /\ Silent
  /\ UNCHANGED <<rosterVars, appVars, tableVars, ovLoading, calls, resultVars, cloneVars,
                 heapVars>>

\* Mutant of updateAnalyzer: the updated analyzer is always appended.
updateAnalyzer_Appends(updatedAnalyzer) ==
  /\ currentCrawlSpec # Null
  /\ newCrawlSpec' = [Val(currentCrawlSpec) EXCEPT !.analyzer_specs = Append(@, updatedAnalyzer)]
  /\ Silent
  /\ UNCHANGED <<rosterVars, selectedCrawl, isNewCrawl, activeTab, tableVars, ovLoading,
                 calls, resultVars, cloneVars, selectedAnalyzer, heapVars>>

updateAnalyzer(updatedAnalyzer) ==
  /\ currentCrawlSpec # Null
  /\ LET specs == Val(currentCrawlSpec).analyzer_specs
         existingIndex == findIndex(specs, updatedAnalyzer.name)
         newAnalyzerSpecs == IF existingIndex > 0
                             THEN [specs EXCEPT ![existingIndex] = updatedAnalyzer]
                             ELSE Append(specs, updatedAnalyzer)
     IN newCrawlSpec' = [Val(currentCrawlSpec) EXCEPT !.analyzer_specs = newAnalyzerSpecs]
  /\ Silent
  /\ UNCHANGED <<rosterVars, selectedCrawl, isNewCrawl, activeTab, tableVars, ovLoading,
                 calls, resultVars, cloneVars, selectedAnalyzer, heapVars>>

TermsOf(analyzer) ==
  Len(FieldOr(analyzer, "keywords", <<>>)) + Len(FieldOr(analyzer, "regexes", <<>>))

\* The add button of the term form, newTerm being the form's state.
handleAddTerm(newTerm) ==
  /\ AnalyzersEditable
  /\ selectedAnalyzer = "Term Matching"
  /\ trim(newTerm.term) # <<>>
  /\ TermsOf(getOrCreateAnalyzer("KeywordScoreAnalyzer")) < MaxTerms
  /\ LET analyzer == getOrCreateAnalyzer("KeywordScoreAnalyzer")
     IN IF newTerm.type = "Keyword"
        THEN updateAnalyzer(With(analyzer, "keywords",
               Append(FieldOr(analyzer, "keywords", <<>>),
                      [keyword |-> newTerm.term, weight |-> newTerm.weight])))
        ELSE updateAnalyzer(With(analyzer, "regexes",
               Append(FieldOr(analyzer, "regexes", <<>>),
                      [regex |-> newTerm.term, weight |-> newTerm.weight,
                       flags |-> IF newTerm.matchCase THEN 0 ELSE 2])))

handleRemoveTerm(type, index) ==
  /\ AnalyzersEditable
  /\ selectedAnalyzer = "Term Matching"
  /\ LET analyzer == getOrCreateAnalyzer("KeywordScoreAnalyzer")
         field == IF type = "keyword" THEN "keywords" ELSE "regexes"
     IN /\ index \in 1..Len(FieldOr(analyzer, field, <<>>))
        /\ updateAnalyzer(With(analyzer, field, RemoveAt(FieldOr(analyzer, field, <<>>), index)))

handlePromptChange(prompt) ==
  /\ AnalyzersEditable
  /\ selectedAnalyzer = "DH LLM Prompt"
  /\ updateAnalyzer(With(getOrCreateAnalyzer("DhLlmScoreAnalyzer"), "prompt_input",
                         [prompt |-> prompt]))

handleCompositeWeightChange(analyzerName, weight) ==
  /\ AnalyzersEditable
  /\ analyzerName = currentAnalyzer.name
  /\ updateAnalyzer(With(getOrCreateAnalyzer(analyzerName), "composite_weight", weight))

\* The add button of the output-field form, newOutputField being its state.
handleAddOutputField(newOutputField) ==
  /\ AnalyzersEditable
  /\ selectedAnalyzer = "DH LLM Prompt"
  /\ trim(newOutputField.name) # <<>>
  /\ LET analyzer == getOrCreateAnalyzer("DhLlmScoreAnalyzer")
         fieldMap == FieldOr(analyzer, "field_map", <<>>)
         newFieldMap == [k \in DOMAIN fieldMap \cup {newOutputField.name} |->
                           IF k = newOutputField.name THEN newOutputField.type
                           ELSE fieldMap[k]]
     IN updateAnalyzer(With(analyzer, "field_map", newFieldMap))

handleRemoveOutputField(fieldName) ==
  /\ AnalyzersEditable
  /\ selectedAnalyzer = "DH LLM Prompt"
  /\ LET analyzer == getOrCreateAnalyzer("DhLlmScoreAnalyzer")
         fieldMap == FieldOr(analyzer, "field_map", <<>>)
     IN /\ fieldName \in DOMAIN fieldMap
        /\ updateAnalyzer(With(analyzer, "field_map",
                               [k \in DOMAIN fieldMap \ {fieldName} |-> fieldMap[k]]))

(***************************************************************************)
(* ResultsTab                                                              *)
(***************************************************************************)
\* Record summaries and full records the remote service may return.
SumP == [id |-> <<"p">>, url |-> <<"b">>, score |-> 1]
SumQ == [id |-> <<"Q">>, url |-> <<"A">>, score |-> 1]
SumR == [id |-> <<"r">>, url |-> <<"c">>, score |-> 2]
\* Eight more summaries, so that a response fills more than one page.
Digits == <<"1", "2", "3", "4", "5", "6", "7", "8">>
SumMore == [n \in 1..8 |-> [id |-> <<"s", Digits[n]>>, url |-> <<"d">>, score |-> 0]]
\* Twenty-three summaries with repeated scores: three pages of ten.
Sum23 ==
  [n \in 1..23 |-> [id |-> <<Digits[((n - 1) \div 8) + 1], Digits[((n - 1) % 8) + 1]>>,
                    url |-> <<"d">>, score |-> n % 3]]
SummaryResponses == { <<>>, <<SumP, SumQ>>, <<SumR, SumQ, SumP>>, <<SumR, SumQ, SumP>> \o SumMore }

RecordOf(id) ==
  IF id = <<"Q">>
  THEN [id |-> id, url |-> <<"A">>, links |-> <<>>]
  ELSE [id |-> id, url |-> <<"b">>, extracted_content |-> "text"]

\* getCrawlRecords(crawl_id, [id]) answers with the record or with no record.
DetailResponses(id) == { <<RecordOf(id)>>, <<>> }

\* The < of JavaScript on strings: code units in lexicographic order.
CharOrder ==
  <<" ", "1", "2", "3", "4", "5", "6", "7", "8", "A", "B", "C", "Q",
    "a", "b", "c", "d", "p", "q", "r", "s", "u", "v">>
CharCode(c) == CHOOSE n \in 1..Len(CharOrder) : CharOrder[n] = c
RECURSIVE StringLess(_, _)
StringLess(a, b) ==
  IF b = <<>> THEN FALSE
  ELSE IF a = <<>> THEN TRUE
  ELSE IF Head(a) = Head(b) THEN StringLess(Tail(a), Tail(b))
  ELSE CharCode(Head(a)) < CharCode(Head(b))

\* The comparator of sortRecords under a sort configuration.
SortKeys == {"id", "url", "score"}
ValueLess(key, a, b) ==
  IF key = "score" THEN a[key] < b[key]
  ELSE StringLess(toLowerCase(a[key]), toLowerCase(b[key]))
compare(config, a, b) ==
  IF ValueLess(config.key, a, b) THEN (IF config.direction = "asc" THEN -1 ELSE 1)
  ELSE IF ValueLess(config.key, b, a) THEN (IF config.direction = "asc" THEN 1 ELSE -1)
  ELSE 0

\* [...records].sort(comparator): Array.prototype.sort is stable.
RECURSIVE InsertSorted(_, _, _)
InsertSorted(config, sorted, x) ==
  IF sorted = <<>> THEN <<x>>
  ELSE IF compare(config, x, Head(sorted)) < 0 THEN <<x>> \o sorted
  ELSE <<Head(sorted)>> \o InsertSorted(config, Tail(sorted), x)
RECURSIVE sortRecordsBy(_, _)
sortRecordsBy(config, records) ==
  IF records = <<>> THEN <<>>
  ELSE InsertSorted(config, sortRecordsBy(config, SubSeq(records, 1, Len(records) - 1)),
                    records[Len(records)])
sortRecords(records) == sortRecordsBy(sortConfig, records)

\* Sort and paginate records.
Min(a, b) == IF a < b THEN a ELSE b
Max(a, b) == IF a > b THEN a ELSE b
sortedRecords == sortRecords(recordSummaries)
totalPages == (Len(sortedRecords) + rowsPerPage - 1) \div rowsPerPage
\* Mutant of startIndex: the page index is taken as zero-based.
startIndex_ZeroBased == currentPage * rowsPerPage
startIndex == (currentPage - 1) * rowsPerPage
endIndex == startIndex + rowsPerPage
currentRecords == SubSeq(sortedRecords, startIndex + 1, Min(endIndex, Len(sortedRecords)))

ResultsShown == ConsoleShown /\ activeTab = "results" /\ (selectedCrawl # Null \/ isNewCrawl)

\* Mutant of handleSort: every header click sorts ascending.
handleSort_AlwaysAscending(key) ==
  /\ ResultsShown
  /\ sortConfig' = [key |-> key, direction |-> "asc"]
  /\ Silent
  /\ UNCHANGED <<rosterVars, appVars, tableVars, ovLoading, calls,
                 recordSummaries, selectedRecord, selectedRecordId, selectedField,
                 resLoading, currentPage, rowsPerPage, summariesInFlight, detailsInFlight,
                 cloneVars, selectedAnalyzer, heapVars>>

\* Column header click.
handleSort(key) ==
  /\ ResultsShown
  /\ sortConfig' = [key |-> key,
                    direction |-> IF sortConfig.key = key /\ sortConfig.direction = "asc"
                                  THEN "desc" ELSE "asc"]
  /\ Silent
  /\ UNCHANGED <<rosterVars, appVars, tableVars, ovLoading, calls,
                 recordSummaries, selectedRecord, selectedRecordId, selectedField,
                 resLoading, currentPage, rowsPerPage, summariesInFlight, detailsInFlight, cloneVars, selectedAnalyzer, heapVars>>

\* Pagination buttons: previous, the page numbers, next.
PageButtons ==
  (IF currentPage = 1 THEN {} ELSE {currentPage - 1})
    \cup 1..Min(5, totalPages)
    \cup (IF currentPage = totalPages \/ totalPages = 0 THEN {} ELSE {currentPage + 1})

\* Mutant of handlePageChange: the requested page is stored as it is.
handlePageChange_Unclamped(page) ==
  /\ ResultsShown
  /\ currentPage' = page
  /\ Silent
  /\ UNCHANGED <<rosterVars, appVars, tableVars, ovLoading, calls,
                 recordSummaries, selectedRecord, selectedRecordId, selectedField,
                 resLoading, rowsPerPage, sortConfig, summariesInFlight, detailsInFlight,
                 cloneVars, selectedAnalyzer, heapVars>>

\* handlePageChange(page), for any page number.
handlePageChange(page) ==
  /\ ResultsShown
  /\ currentPage' = Max(1, Min(page, totalPages))
  /\ Silent
  /\ UNCHANGED <<rosterVars, appVars, tableVars, ovLoading, calls,
                 recordSummaries, selectedRecord, selectedRecordId, selectedField,
                 resLoading, rowsPerPage, sortConfig, summariesInFlight, detailsInFlight,
                 cloneVars, selectedAnalyzer, heapVars>>

\* A click on an enabled pagination button (shown while the list is not
\* empty).
clickPage(page) ==
  /\ Len(recordSummaries) > 0
  /\ page \in PageButtons
  /\ handlePageChange(page)

\* Rows-per-page select.
RowsPerPageOptions == {10, 20, 50, 100}
handleRowsPerPageChange(rows) ==
  /\ ResultsShown
  /\ Len(recordSummaries) > 0
  /\ rows \in RowsPerPageOptions
  /\ rows # rowsPerPage
  /\ rowsPerPage' = rows
  /\ currentPage' = 1
  /\ Silent
  /\ UNCHANGED <<rosterVars, appVars, tableVars, ovLoading, calls,
                 recordSummaries, selectedRecord, selectedRecordId, selectedField,
                 resLoading, sortConfig, summariesInFlight, detailsInFlight, cloneVars, selectedAnalyzer, heapVars>>

\* Get Records button: handleGetRecords up to its await.
handleGetRecords ==
  /\ ConsoleShown /\ activeTab = "results"
  /\ ~resLoading
  /\ selectedCrawl # Null
  /\ resLoading' = TRUE
  /\ summariesInFlight' = summariesInFlight + 1
  /\ Silent
  /\ UNCHANGED <<rosterVars, appVars, tableVars, ovLoading, calls,
                 recordSummaries, selectedRecord, selectedRecordId, selectedField,
                 currentPage, rowsPerPage, sortConfig, detailsInFlight, cloneVars, selectedAnalyzer, heapVars>>

\* Mutant of SummariesSucceed: the displayed detail record is kept.
SummariesSucceed_KeepsDetail(records) ==
  /\ summariesInFlight > 0
  /\ summariesInFlight' = summariesInFlight - 1
  /\ recordSummaries' = records
  /\ currentPage' = 1
  /\ selectedRecordId' = <<>>
  /\ resLoading' = FALSE
  /\ Silent
  /\ UNCHANGED <<rosterVars, appVars, tableVars, ovLoading, calls, selectedRecord,
                 selectedField, rowsPerPage, sortConfig, detailsInFlight, cloneVars, selectedAnalyzer, heapVars>>

\* handleGetRecords continuation, try branch, then finally.
SummariesSucceed(records) ==
  /\ summariesInFlight > 0
  /\ summariesInFlight' = summariesInFlight - 1
  /\ recordSummaries' = records
  /\ currentPage' = 1
  /\ selectedRecord' = Null
  /\ selectedRecordId' = <<>>
  /\ resLoading' = FALSE
  /\ Silent
  /\ UNCHANGED <<rosterVars, appVars, tableVars, ovLoading, calls,
                 selectedField, rowsPerPage, sortConfig, detailsInFlight, cloneVars, selectedAnalyzer, heapVars>>

\* Mutant of SummariesFail: the catch branch also empties the list.
SummariesFail_ClearsList ==
  /\ summariesInFlight > 0
  /\ summariesInFlight' = summariesInFlight - 1
  /\ notified' = <<showError("Fetch Error", "Failed to fetch record summaries")>>
  /\ download' = Null
  /\ resLoading' = FALSE
  /\ recordSummaries' = <<>>
  /\ UNCHANGED <<rosterVars, appVars, tableVars, ovLoading, calls,
                 selectedRecord, selectedRecordId, selectedField,
                 currentPage, rowsPerPage, sortConfig, detailsInFlight, cloneVars, selectedAnalyzer, heapVars>>

\* handleGetRecords continuation, catch branch, then finally.
SummariesFail ==
  /\ summariesInFlight > 0
  /\ summariesInFlight' = summariesInFlight - 1
  /\ notified' = <<showError("Fetch Error", "Failed to fetch record summaries")>>
  /\ download' = Null
  /\ resLoading' = FALSE
  /\ UNCHANGED <<rosterVars, appVars, tableVars, ovLoading, calls,
                 recordSummaries, selectedRecord, selectedRecordId, selectedField,
                 currentPage, rowsPerPage, sortConfig, detailsInFlight, cloneVars, selectedAnalyzer, heapVars>>

\* Row click: handleSelectRecord(summary) up to its await.
handleSelectRecord(summary) ==
  /\ ConsoleShown /\ activeTab = "results"
  /\ selectedCrawl # Null
  /\ summary \in Range(currentRecords)
  /\ Len(detailsInFlight) < MaxDetails
  /\ selectedRecordId' = summary.id
  /\ detailsInFlight' = Append(detailsInFlight, summary.id)
  /\ Silent
  /\ UNCHANGED <<rosterVars, appVars, tableVars, ovLoading, calls,
                 recordSummaries, selectedRecord, selectedField, resLoading,
                 currentPage, rowsPerPage, sortConfig, summariesInFlight, cloneVars, selectedAnalyzer, heapVars>>

\* handleSelectRecord continuation, try branch.
DetailSucceeds(i, records) ==
  /\ i \in 1..Len(detailsInFlight)
  /\ records \in DetailResponses(detailsInFlight[i])
  /\ detailsInFlight' = RemoveAt(detailsInFlight, i)
  /\ IF Len(records) > 0
     THEN /\ selectedRecord' = Some(records[1])
          /\ selectedField' = IF selectedField = "" \/ selectedField \notin DOMAIN records[1]
                              THEN "extracted_content" ELSE selectedField
     ELSE UNCHANGED <<selectedRecord, selectedField>>
  /\ Silent
  /\ UNCHANGED <<rosterVars, appVars, tableVars, ovLoading, calls,
                 recordSummaries, selectedRecordId, resLoading, currentPage, rowsPerPage,
                 sortConfig, summariesInFlight, cloneVars, selectedAnalyzer, heapVars>>

\* handleSelectRecord continuation, catch branch.
DetailFails(i) ==
  /\ i \in 1..Len(detailsInFlight)
  /\ detailsInFlight' = RemoveAt(detailsInFlight, i)
  /\ notified' = <<showError("Fetch Error", "Failed to fetch record details")>>
  /\ download' = Null
  /\ selectedRecordId' = <<>>
  /\ UNCHANGED <<rosterVars, appVars, tableVars, ovLoading, calls,
                 recordSummaries, selectedRecord, selectedField, resLoading, currentPage,
                 rowsPerPage, sortConfig, summariesInFlight, cloneVars, selectedAnalyzer, heapVars>>

(***************************************************************************)
(* The draft editors at reference level                                    *)
(*                                                                         *)
(* The same handlers with JavaScript's object identity: a CrawlSpec, an    *)
(* AnalyzerSpec and every array is a cell of heap, and a field that holds  *)
(* an object holds its address.  An object or array literal, a spread,     *)
(* filter and [...a] allocate a new cell; an assignment a[i] = v writes    *)
(* the cell of a.                                                          *)
(***************************************************************************)
SpecCell(name, seeds, analyzer_specs, worker_count, domain_blacklist) ==
  [kind |-> "spec", name |-> name, seeds |-> seeds, analyzer_specs |-> analyzer_specs,
   worker_count |-> worker_count, domain_blacklist |-> domain_blacklist]
ArrayCell(items) == [kind |-> "array", items |-> items]
AnalyzerCell(name, composite_weight, keywords) ==
  [kind |-> "analyzer", name |-> name, composite_weight |-> composite_weight,
   keywords |-> keywords]

\* The cells of one roster entry's crawl_spec as JSON.parse leaves them; the
\* crawl_spec object is the cell at SourceRef.
SourceRef == 1
RosterHeap ==
  << SpecCell(<<"a", "b">>, 2, 3, 3, 4),
     ArrayCell(<<"u", "v">>),
     ArrayCell(<<5>>),
     ArrayCell(<<"x.org">>),
     AnalyzerCell("KeywordScoreAnalyzer", 3, 6),
     ArrayCell(<<[keyword |-> <<"k">>, weight |-> 1]>>) >>

\* The value an address stands for.
AnalyzerValue(h, ref) ==
  [name |-> h[ref].name, composite_weight |-> h[ref].composite_weight,
   keywords |-> h[h[ref].keywords].items]
SpecValue(h, ref) ==
  [name |-> h[ref].name,
   seeds |-> h[h[ref].seeds].items,
   analyzer_specs |-> [i \in 1..Len(h[h[ref].analyzer_specs].items) |->
                         AnalyzerValue(h, h[h[ref].analyzer_specs].items[i])],
   worker_count |-> h[ref].worker_count,
   domain_blacklist |-> h[h[ref].domain_blacklist].items]

\* setNewCrawlSpec(spec): the handlers below allocate the new draft object
\* last, so the draft is the newest cell of h.
setNewCrawlSpec(h) ==
  /\ Len(h) <= MaxHeap
  /\ heap' = h
  /\ draftRef' = Len(h)
  /\ UNCHANGED uiVars

handleNewCrawlOnHeap ==
  /\ Len(heap) + 4 <= MaxHeap
  /\ setNewCrawlSpec(heap \o << ArrayCell(<<>>), ArrayCell(<<>>), ArrayCell(<<>>),
                                SpecCell(<<>>, Len(heap) + 1, Len(heap) + 2, 1,
                                         Len(heap) + 3) >>)

\* { ...crawlToClone.crawl_spec, name: ... }
handleCloneExistingOnHeap ==
  /\ heap[SourceRef].kind = "spec"
  /\ setNewCrawlSpec(Append(heap, [heap[SourceRef] EXCEPT !.name = @ \o CopySuffix]))

handleNameChangeOnHeap(name) ==
  /\ draftRef # 0
  /\ setNewCrawlSpec(Append(heap, [heap[draftRef] EXCEPT !.name = name]))

handleWorkerCountChangeOnHeap(workerCount) ==
  /\ draftRef # 0
  /\ setNewCrawlSpec(Append(heap, [heap[draftRef] EXCEPT !.worker_count = workerCount]))

\* { ...crawlSpec, seeds: <a new array> }
WithNewSeeds(items) ==
  heap \o << ArrayCell(items), [heap[draftRef] EXCEPT !.seeds = Len(heap) + 1] >>

handleAddUrlOnHeap ==
  /\ draftRef # 0
  /\ setNewCrawlSpec(WithNewSeeds(Append(heap[heap[draftRef].seeds].items, "")))

\* Mutant of handleUrlChangeOnHeap: crawlSpec.seeds[index] = url on the
\* array of the current draft, which is then put in a new draft object.
handleUrlChangeOnHeap_InPlace(index, url) ==
  /\ draftRef # 0
  /\ index \in 1..Len(heap[heap[draftRef].seeds].items)
  /\ setNewCrawlSpec(Append([heap EXCEPT ![heap[draftRef].seeds].items[index] = url],
                            heap[draftRef]))

\* const newSeeds = [...crawlSpec.seeds]; newSeeds[index] = url
handleUrlChangeOnHeap(index, url) ==
  /\ draftRef # 0
  /\ index \in 1..Len(heap[heap[draftRef].seeds].items)
  /\ setNewCrawlSpec(WithNewSeeds([heap[heap[draftRef].seeds].items EXCEPT ![index] = url]))

handleRemoveUrlOnHeap(index) ==
  /\ draftRef # 0
  /\ index \in 1..Len(heap[heap[draftRef].seeds].items)
  /\ setNewCrawlSpec(WithNewSeeds(RemoveAt(heap[heap[draftRef].seeds].items, index)))

handleAddSearchUrlsOnHeap(urls) ==
  /\ draftRef # 0
  /\ setNewCrawlSpec(WithNewSeeds(heap[heap[draftRef].seeds].items
                                    \o uniqueUrls(urls, heap[heap[draftRef].seeds].items)))

\* The addresses in the draft's analyzer_specs array.
AnalyzerRefs(h) == h[h[draftRef].analyzer_specs].items
findIndexOnHeap(h, name) ==
  IF \E i \in 1..Len(AnalyzerRefs(h)) : h[AnalyzerRefs(h)[i]].name = name
  THEN CHOOSE i \in 1..Len(AnalyzerRefs(h)) :
         /\ h[AnalyzerRefs(h)[i]].name = name
         /\ \A j \in 1..(i - 1) : h[AnalyzerRefs(h)[j]].name # name
  ELSE 0

\* getOrCreateAnalyzer: the object found, or a new object with a new
\* keywords array; the result is the store and the analyzer's address.
getOrCreateAnalyzerOnHeap(name) ==
  IF findIndexOnHeap(heap, name) > 0
  THEN [h |-> heap, ref |-> AnalyzerRefs(heap)[findIndexOnHeap(heap, name)]]
  ELSE [h |-> heap \o << ArrayCell(<<>>), AnalyzerCell(name, 1, Len(heap) + 1) >>,
        ref |-> Len(heap) + 2]

\* updateAnalyzer(updatedAnalyzer), the updated analyzer being the newest
\* cell of h: a new analyzer_specs array, then a new draft object.
updateAnalyzerOnHeap(h) ==
  LET existingIndex == findIndexOnHeap(h, h[Len(h)].name)
      newAnalyzerSpecs == IF existingIndex > 0
                          THEN [AnalyzerRefs(h) EXCEPT ![existingIndex] = Len(h)]
                          ELSE Append(AnalyzerRefs(h), Len(h))
  IN setNewCrawlSpec(h \o << ArrayCell(newAnalyzerSpecs),
                             [h[draftRef] EXCEPT !.analyzer_specs = Len(h) + 1] >>)

\* { ...analyzer, composite_weight: weight }
handleCompositeWeightChangeOnHeap(analyzerName, weight) ==
  /\ draftRef # 0
  /\ LET found == getOrCreateAnalyzerOnHeap(analyzerName)
     IN updateAnalyzerOnHeap(
          Append(found.h, [found.h[found.ref] EXCEPT !.composite_weight = weight]))

\* { ...analyzer, keywords: [...(analyzer.keywords || []), newKeyword] }
handleAddTermOnHeap(newTerm) ==
  /\ draftRef # 0
  /\ trim(newTerm.term) # <<>>
  /\ LET found == getOrCreateAnalyzerOnHeap("KeywordScoreAnalyzer")
         keywords == found.h[found.h[found.ref].keywords].items
     IN /\ Len(keywords) < MaxTerms + 1
        /\ updateAnalyzerOnHeap(
             found.h \o << ArrayCell(Append(keywords, [keyword |-> newTerm.term,
                                                        weight |-> newTerm.weight])),
                           [found.h[found.ref] EXCEPT !.keywords = Len(found.h) + 1] >>)

\* { ...analyzer, keywords: keywords.filter((_, i) => i !== index) }
handleRemoveTermOnHeap(index) ==
  /\ draftRef # 0
  /\ LET found == getOrCreateAnalyzerOnHeap("KeywordScoreAnalyzer")
         keywords == found.h[found.h[found.ref].keywords].items
     IN /\ index \in 1..Len(keywords)
        /\ updateAnalyzerOnHeap(
             found.h \o << ArrayCell(RemoveAt(keywords, index)),
                           [found.h[found.ref] EXCEPT !.keywords = Len(found.h) + 1] >>)

(***************************************************************************)
(* Specifications                                                          *)
(***************************************************************************)
ResultsInit ==
  /\ recordSummaries = <<>>
  /\ selectedRecord = Null
  /\ selectedRecordId = <<>>
  /\ selectedField = "extracted_content"
  /\ resLoading = FALSE
  /\ currentPage = 1
  /\ rowsPerPage = 10
  /\ sortConfig = [key |-> "score", direction |-> "desc"]
  /\ summariesInFlight = 0
  /\ detailsInFlight = <<>>

\* The state after the first render of App.
Init ==
  /\ crawls = <<>>
  /\ loading = TRUE
  /\ error = Null
  /\ interval = "unset"
  /\ pollsInFlight = <<>>
  /\ selectedCrawl = Null
  /\ isNewCrawl = FALSE
  /\ newCrawlSpec = EmptySpec
  /\ activeTab = "overview"
  /\ isCloneModalOpen = FALSE
  /\ selectedCrawlId = ""
  /\ selectedAnalyzer = "Term Matching"
  /\ heap = <<>>
  /\ draftRef = 0
  /\ deleteDialog = DialogClosed
  /\ actionLoading = Null
  /\ ovLoading = FALSE
  /\ calls = <<>>
  /\ notified = <<>>
  /\ download = Null
  /\ ResultsInit

TabIds == {"overview", "sources", "analyzers", "results"}
Crawls == {CrawlX, CrawlY}

Sync ==
  \/ Activate
  \/ Tick
  \/ Deactivate
  \/ \E i \in 1..MaxPolls, response \in PollResponses : PollSucceeds(i, response)
  \/ \E i \in 1..MaxPolls : PollFails(i)

Table ==
  \/ \E crawl \in Crawls : handleSelectCrawl(crawl)
  \/ \E crawl \in Crawls : handleStartCrawl(crawl)
  \/ \E crawl \in Crawls : handleStopCrawl(crawl)
  \/ \E crawl \in Crawls : openDeleteDialog(crawl)
  \/ cancelDeleteDialog
  \/ handleDeleteCrawl
  \/ \E i \in 1..MaxCalls : StartSucceeds(i)
  \/ \E i \in 1..MaxCalls : StartFails(i)
  \/ \E i \in 1..MaxCalls : StopSucceeds(i)
  \/ \E i \in 1..MaxCalls : StopFails(i)
  \/ \E i \in 1..MaxCalls : DeleteSucceeds(i)
  \/ \E i \in 1..MaxCalls : DeleteFails(i)

\* Roster synchroniser and roster selection.
Next ==
  \/ Sync
  \/ \E crawl \in Crawls : handleSelectCrawl(crawl)
  \/ handleNewCrawl

Spec == Init /\ [][Next]_vars

\* Draft editing and submission against a polled roster; the poll responses
\* arrive in issue order.
DraftNames == { <<>>, <<" ">>, <<"A">>, <<"c">> }
WorkerInputs == { -1, 0, 17 }
SeedUrls == { "u" }

DraftNext ==
  \/ Activate
  \/ Tick
  \/ \E response \in {<<>>, <<CrawlX>>} : PollSucceeds(1, response)
  \/ handleNewCrawl
  \/ \E tab \in {"overview", "sources"} : handleTabChange(tab)
  \/ \E name \in DraftNames : handleNameChange(name)
  \/ \E n \in WorkerInputs : handleWorkerCountChange(parsedOrOne(n))
  \/ handleAddUrl
  \/ \E index \in 1..MaxSeeds : handleRemoveUrl(index)
  \/ handleSubmitCrawl
  \/ \E i \in 1..MaxCalls : CreateSucceeds(i)
  \/ \E i \in 1..MaxCalls : CreateFails(i)

SpecDraft == Init /\ [][DraftNext]_vars

\* The seed-URL editor of the sources tab, with one draft name.
SourcesNext ==
  \/ Activate
  \/ \E response \in {<<>>, <<CrawlX>>} : PollSucceeds(1, response)
  \/ handleNewCrawl
  \/ \E tab \in {"overview", "sources"} : handleTabChange(tab)
  \/ handleNameChange(<<"c">>)
  \/ handleAddUrl
  \/ \E index \in 1..MaxSeeds, url \in SeedUrls : handleUrlChange(index, url)
  \/ \E index \in 1..MaxSeeds : handleRemoveUrl(index)
  \/ handleSubmitCrawl
  \/ \E i \in 1..MaxCalls : CreateSucceeds(i)
  \/ \E i \in 1..MaxCalls : CreateFails(i)

SpecSources == Init /\ [][SourcesNext]_vars

\* The three editor surfaces on a new or cloned draft.
EditorsNext ==
  \/ Activate
  \/ PollSucceeds(1, <<CrawlZ>>)
  \/ handleNewCrawl
  \/ openCloneModal
  \/ \E id \in {"", "z"} : setSelectedCrawlId(id)
  \/ handleClose
  \/ handleClone
  \/ \E tab \in {"overview", "sources", "analyzers"} : handleTabChange(tab)
  \/ handleNameChange(<<"c">>)
  \/ handleWorkerCountChange(2)
  \/ handleAddUrl
  \/ handleUrlChange(1, "w")
  \/ handleRemoveUrl(1)
  \/ handleAddSearchUrls(<<"u", "w">>)
  \/ \E type \in {"Keyword", "Regex"} :
        handleAddTerm([type |-> type, term |-> <<"t">>, matchCase |-> FALSE, weight |-> 1])
  \/ \E type \in {"keyword", "regex"} : handleRemoveTerm(type, 1)
  \/ handlePromptChange("q")
  \/ \E analyzerName \in {"KeywordScoreAnalyzer", "DhLlmScoreAnalyzer"} :
        handleCompositeWeightChange(analyzerName, 2)
  \/ handleAddOutputField([name |-> <<"f">>, type |-> "int"])
  \/ \E fieldName \in {ScoreField, <<"f">>} : handleRemoveOutputField(fieldName)
  \/ \E analyzer \in {"Term Matching", "DH LLM Prompt"} : setSelectedAnalyzer(analyzer)

SpecEditors == Init /\ [][EditorsNext]_vars

\* The editors on a blank draft and on a roster entry that is viewed.
EditsNext ==
  \/ Activate
  \/ PollSucceeds(1, <<CrawlZ>>)
  \/ handleNewCrawl
  \/ handleSelectCrawl(CrawlZ)
  \/ \E tab \in {"overview", "sources", "analyzers"} : handleTabChange(tab)
  \/ handleNameChange(<<"c">>)
  \/ handleWorkerCountChange(2)
  \/ handleAddUrl
  \/ handleUrlChange(1, "w")
  \/ handleRemoveUrl(1)
  \/ handleAddSearchUrls(<<"u", "w">>)
  \/ \E type \in {"Keyword", "Regex"} :
        handleAddTerm([type |-> type, term |-> <<"t">>, matchCase |-> FALSE, weight |-> 1])
  \/ \E type \in {"keyword", "regex"} : handleRemoveTerm(type, 1)
  \/ handlePromptChange("q")
  \/ \E analyzerName \in {"KeywordScoreAnalyzer", "DhLlmScoreAnalyzer"} :
        handleCompositeWeightChange(analyzerName, 2)
  \/ handleAddOutputField([name |-> <<"f">>, type |-> "int"])
  \/ \E fieldName \in {ScoreField, <<"f">>} : handleRemoveOutputField(fieldName)
  \/ \E analyzer \in {"Term Matching", "DH LLM Prompt"} : setSelectedAnalyzer(analyzer)

SpecEdits == Init /\ [][EditsNext]_vars

\* The synchroniser next to every command; the poll responses arrive in
\* issue order and the draft is a clone of a roster entry.
IsolationNext ==
  \/ Activate
  \/ Tick
  \/ \E response \in {<<CrawlX>>, <<CrawlX, CrawlY>>} : PollSucceeds(1, response)
  \/ PollFails(1)
  \/ handleSelectCrawl(CrawlX)
  \/ handleStartCrawl(CrawlX)
  \/ handleStopCrawl(CrawlY)
  \/ openDeleteDialog(CrawlX)
  \/ handleDeleteCrawl
  \/ \E i \in 1..MaxCalls : StartSucceeds(i)
  \/ \E i \in 1..MaxCalls : StartFails(i)
  \/ \E i \in 1..MaxCalls : StopSucceeds(i)
  \/ \E i \in 1..MaxCalls : StopFails(i)
  \/ \E i \in 1..MaxCalls : DeleteSucceeds(i)
  \/ \E i \in 1..MaxCalls : DeleteFails(i)
  \/ handleNewCrawl
  \/ openCloneModal
  \/ setSelectedCrawlId("x")
  \/ handleClone
  \/ handleSubmitCrawl
  \/ \E i \in 1..MaxCalls : CreateSucceeds(i)
  \/ \E i \in 1..MaxCalls : CreateFails(i)
  \/ handleExportParams
  \/ \E i \in 1..MaxCalls : ExportSucceeds(i)
  \/ \E i \in 1..MaxCalls : ExportFails(i)

SpecIsolation == Init /\ [][IsolationNext]_vars

\* The New Crawl button after a clone, edits and submissions of the draft.
NewCrawlNext ==
  \/ Activate
  \/ PollSucceeds(1, <<CrawlX>>)
  \/ handleNewCrawl
  \/ handleSelectCrawl(CrawlX)
  \/ openCloneModal
  \/ setSelectedCrawlId("x")
  \/ handleClone
  \/ \E tab \in {"overview", "sources"} : handleTabChange(tab)
  \/ handleNameChange(<<"c">>)
  \/ handleWorkerCountChange(2)
  \/ handleAddUrl
  \/ handleUrlChange(1, "w")
  \/ handleSubmitCrawl
  \/ \E i \in 1..MaxCalls : CreateSucceeds(i)
  \/ \E i \in 1..MaxCalls : CreateFails(i)

SpecNewCrawl == Init /\ [][NewCrawlNext]_vars

\* The console after its first successful create: a draft named "c" with
\* the seed "u" was submitted against the roster [x], the create call has
\* succeeded, and no poll has answered since.
CrawlC ==
  [crawl_spec |-> [EmptySpec EXCEPT !.name = <<"c">>, !.seeds = <<"u">>],
   crawl_status |-> [crawl_id |-> "c", current_state |-> "CREATED"]]

InitCreated ==
  /\ crawls = <<CrawlX>>
  /\ loading = FALSE
  /\ error = Null
  /\ interval = "set"
  /\ pollsInFlight = <<>>
  /\ selectedCrawl = Null
  /\ isNewCrawl = FALSE
  /\ newCrawlSpec = CrawlC.crawl_spec
  /\ activeTab = "overview"
  /\ isCloneModalOpen = FALSE
  /\ selectedCrawlId = ""
  /\ selectedAnalyzer = "Term Matching"
  /\ heap = <<>>
  /\ draftRef = 0
  /\ deleteDialog = DialogClosed
  /\ actionLoading = Null
  /\ ovLoading = FALSE
  /\ calls = <<>>
  /\ notified = <<showSuccess("Crawl Created", "Successfully created crawl")>>
  /\ download = Null
  /\ ResultsInit

\* Further submissions; a poll that answers after the create lists the
\* crawl that was created.
ResubmitNext ==
  \/ Tick
  \/ \E i \in 1..MaxPolls : PollSucceeds(i, <<CrawlX, CrawlC>>)
  \/ handleNewCrawl
  \/ \E tab \in {"overview", "sources"} : handleTabChange(tab)
  \/ \E name \in {<<"c">>, <<"C">>, <<"d">>} : handleNameChange(name)
  \/ handleAddUrl
  \/ handleUrlChange(1, "u")
  \/ handleSubmitCrawl
  \/ \E i \in 1..MaxCalls : CreateSucceeds(i)
  \/ \E i \in 1..MaxCalls : CreateFails(i)

SpecResubmit == InitCreated /\ [][ResubmitNext]_vars

\* Exports of the selected crawl.
ExportNext ==
  \/ Activate
  \/ PollSucceeds(1, <<CrawlX, CrawlY>>)
  \/ \E crawl \in {CrawlX, CrawlY} : handleSelectCrawl(crawl)
  \/ handleExportParams
  \/ \E i \in 1..MaxCalls, contentDisposition \in ExportHeaders :
        ExportResponds(i, contentDisposition)
  \/ \E i \in 1..MaxCalls : ExportFails(i)

SpecExport == Init /\ [][ExportNext]_vars

\* The editors at reference level, next to one roster entry.
InitHeap ==
  /\ crawls = <<>>
  /\ loading = TRUE
  /\ error = Null
  /\ interval = "unset"
  /\ pollsInFlight = <<>>
  /\ selectedCrawl = Null
  /\ isNewCrawl = FALSE
  /\ newCrawlSpec = EmptySpec
  /\ activeTab = "overview"
  /\ isCloneModalOpen = FALSE
  /\ selectedCrawlId = ""
  /\ selectedAnalyzer = "Term Matching"
  /\ deleteDialog = DialogClosed
  /\ actionLoading = Null
  /\ ovLoading = FALSE
  /\ calls = <<>>
  /\ notified = <<>>
  /\ download = Null
  /\ ResultsInit
  /\ heap = RosterHeap
  /\ draftRef = 0

HeapNext ==
  \/ handleNewCrawlOnHeap
  \/ handleCloneExistingOnHeap
  \/ handleNameChangeOnHeap(<<"c">>)
  \/ handleWorkerCountChangeOnHeap(2)
  \/ handleAddUrlOnHeap
  \/ \E index \in 1..2 : handleUrlChangeOnHeap(index, "w")
  \/ \E index \in 1..2 : handleRemoveUrlOnHeap(index)
  \/ handleAddSearchUrlsOnHeap(<<"u", "w">>)
  \/ handleCompositeWeightChangeOnHeap("KeywordScoreAnalyzer", 2)
  \/ handleAddTermOnHeap([type |-> "Keyword", term |-> <<"t">>, matchCase |-> FALSE,
                          weight |-> 1])
  \/ handleRemoveTermOnHeap(1)

SpecHeap == InitHeap /\ [][HeapNext]_vars

\* Every command of the dispatcher, with one valid draft.
CommandsNext ==
  \/ Activate
  \/ \E i \in 1..MaxPolls : PollSucceeds(i, <<CrawlX, CrawlY>>)
  \/ Table
  \/ handleNewCrawl
  \/ \E tab \in {"overview", "sources"} : handleTabChange(tab)
  \/ handleNameChange(<<"c">>)
  \/ handleAddUrl
  \/ handleSubmitCrawl
  \/ \E i \in 1..MaxCalls : CreateSucceeds(i)
  \/ \E i \in 1..MaxCalls : CreateFails(i)
  \/ handleExportParams
  \/ \E i \in 1..MaxCalls : ExportSucceeds(i)
  \/ \E i \in 1..MaxCalls : ExportFails(i)

SpecCommands == Init /\ [][CommandsNext]_vars

\* The record explorer of one selected crawl; the App state is the one
\* reached by a first poll, a row click and a switch to the results tab.
InitResults ==
  /\ crawls = <<CrawlX>>
  /\ loading = FALSE
  /\ error = Null
  /\ interval = "set"
  /\ pollsInFlight = <<>>
  /\ selectedCrawl = Some(CrawlX)
  /\ isNewCrawl = FALSE
  /\ newCrawlSpec = EmptySpec
  /\ activeTab = "results"
  /\ isCloneModalOpen = FALSE
  /\ selectedCrawlId = ""
  /\ selectedAnalyzer = "Term Matching"
  /\ heap = <<>>
  /\ draftRef = 0
  /\ deleteDialog = DialogClosed
  /\ actionLoading = Null
  /\ ovLoading = FALSE
  /\ calls = <<>>
  /\ notified = <<>>
  /\ download = Null
  /\ ResultsInit

ResultsNext ==
  \/ handleGetRecords
  \/ \E records \in SummaryResponses : SummariesSucceed(records)
  \/ SummariesFail
  \/ \E summary \in {SumP, SumQ, SumR} : handleSelectRecord(summary)
  \/ \E i \in 1..MaxDetails, records \in {<<>>} \cup {<<RecordOf(s.id)>> : s \in {SumP, SumQ, SumR}} :
        DetailSucceeds(i, records)
  \/ \E i \in 1..MaxDetails : DetailFails(i)
  \/ \E key \in SortKeys : handleSort(key)
  \/ \E page \in 1..2 : clickPage(page)
  \/ \E rows \in {10, 20} : handleRowsPerPageChange(rows)

SpecResults == InitResults /\ [][ResultsNext]_vars

\* Reloads of the summary list next to detail fetches that all succeed: no
\* row is marked only before the first selection and after a reload.
ReloadNext ==
  \/ handleGetRecords
  \/ \E records \in SummaryResponses : SummariesSucceed(records)
  \/ \E summary \in {SumP, SumQ, SumR} : handleSelectRecord(summary)
  \/ \E i \in 1..MaxDetails, records \in {<<RecordOf(s.id)>> : s \in {SumP, SumQ, SumR}} :
        DetailSucceeds(i, records)

SpecReload == InitResults /\ [][ReloadNext]_vars

\* Pagination of the record explorer: lists of 0, 11 and 23 summaries and
\* page requests inside and outside the range.
PagesNext ==
  \/ handleGetRecords
  \/ \E records \in {<<>>, SubSeq(Sum23, 1, 11), Sum23} : SummariesSucceed(records)
  \/ SummariesFail
  \/ \E key \in SortKeys : handleSort(key)
  \/ \E page \in {0, 1, 2, 3, 99} : handlePageChange(page)
  \/ \E rows \in {10, 20} : handleRowsPerPageChange(rows)

SpecPages == InitResults /\ [][PagesNext]_vars

(***************************************************************************)
(* Properties                                                              *)
(***************************************************************************)
OneNotice == Len(notified') = 1
OneCallAdded == Len(calls') = Len(calls) + 1 /\ SubSeq(calls', 1, Len(calls)) = calls
LastCall(q) == q[Len(q)]
SelectedId(sel) == IF sel = Null THEN "" ELSE IdOf(Val(sel))

\* C1: a detail response changes the displayed detail record only to the
\* record of the current pending selection, so a response for A arriving
\* after selectRecord(B) never makes A the displayed detail.
C1_DetailOnlyForPendingSelection ==
  [][(selectedRecord' # selectedRecord /\ selectedRecord' # Null)
       => Val(selectedRecord').id = selectedRecordId]_vars

\* C2: when a delete call completes successfully, the selection is cleared
\* if the selection at that moment is the deleted crawl and is left as it
\* is otherwise.
C2_DeleteClearsExactlyCurrentSelection ==
  [][\A i \in 1..MaxCalls :
       DeleteSucceeds(i) =>
         selectedCrawl' = IF SelectedId(selectedCrawl) = IdOf(Val(calls[i].target))
                          THEN Null ELSE selectedCrawl]_vars

\* C3: the in-flight marker is set for crawl id X exactly when a start,
\* stop or delete call against X is in flight.
Marked(id) == actionLoading = Some(id)
InFlightAgainst(id) ==
  \E i \in 1..Len(calls) :
     calls[i].op \in {"start", "stop", "delete"} /\ IdOf(Val(calls[i].target)) = id
C3_MarkerIffInFlight ==
  \A crawl \in Crawls : Marked(IdOf(crawl)) <=> InFlightAgainst(IdOf(crawl))

\* C4: once the synchroniser is deactivated, no step changes the roster
\* snapshot, the loading flag or the error state.
C4_NoRosterChangeAfterDeactivation ==
  [][interval = "cleared" => UNCHANGED <<crawls, loading, error>>]_vars

\* C5: after every successful poll the selection is empty or is the id of
\* an entry of the roster the poll installed.
C5_SelectionInRosterAfterPoll ==
  [][(\E i \in 1..MaxPolls, response \in PollResponses : PollSucceeds(i, response))
       => SelectedId(selectedCrawl') \in RosterIds(crawls') \cup {""}]_vars

\* C6: a submit of a draft with a blank name, no seeds or a worker count
\* outside 1..16 issues no call, appends exactly one validation notice and
\* leaves the draft and draft mode as they were.
IsBlank(name) == \A i \in 1..Len(name) : name[i] \in Whitespace
Rejectable(spec) ==
  \/ IsBlank(spec.name)
  \/ Len(spec.seeds) = 0
  \/ spec.worker_count < 1
  \/ spec.worker_count > 16
ValidationNoticeAdded ==
  /\ OneNotice
  /\ notified'[1].type = "error"
  /\ notified'[1].title = "Validation Error"
C6_InvalidDraftRejected ==
  [][(handleSubmitCrawl /\ Rejectable(newCrawlSpec))
       => /\ calls' = calls
          /\ ValidationNoticeAdded
          /\ newCrawlSpec' = newCrawlSpec
          /\ isNewCrawl' = isNewCrawl]_vars
C6_Witness ==
  /\ isNewCrawl
  /\ newCrawlSpec.worker_count = 17 /\ ~IsBlank(newCrawlSpec.name) /\ Len(newCrawlSpec.seeds) > 0
  /\ Len(notified) = 1
  /\ notified[1].message = "Worker count must be between 1 and 16"
  /\ calls = <<>>

\* C7: a submit of a draft whose name equals a roster entry's name ignoring
\* case issues no call and appends a validation notice; every create call
\* issued carries a name that differs, ignoring case, from every name of the
\* roster at that moment.
SameIgnoringCase(a, b) ==
  Len(a) = Len(b) /\ \A i \in 1..Len(a) : lowerChar(a[i]) = lowerChar(b[i])
NameTaken(name) == \E crawl \in Range(crawls) : SameIgnoringCase(crawl.crawl_spec.name, name)
C7_DuplicateNameRejected ==
  [][/\ (handleSubmitCrawl /\ NameTaken(newCrawlSpec.name))
          => (calls' = calls /\ ValidationNoticeAdded)
     /\ (OneCallAdded /\ LastCall(calls').op = "create")
          => ~NameTaken(Val(LastCall(calls').spec).name)]_vars
C7_Witness ==
  /\ isNewCrawl
  /\ newCrawlSpec.name = <<"A">>
  /\ \E crawl \in Range(crawls) : crawl.crawl_spec.name = <<"a">>
  /\ Len(notified) = 1
  /\ notified[1].message
       = "A crawl with this name already exists. Please choose a different name."

\* C8: a dispatch of create, start, stop, delete or export adds exactly one
\* gateway call and no notice; the completion of a call removes that call
\* and appends exactly one notice, a success notice when the call succeeded
\* and an error notice when it failed.
CallOps == {"create", "start", "stop", "delete", "export"}
Succeeded ==
  \E i \in 1..MaxCalls :
     StartSucceeds(i) \/ StopSucceeds(i) \/ DeleteSucceeds(i) \/ CreateSucceeds(i)
       \/ ExportSucceeds(i)
Failed ==
  \E i \in 1..MaxCalls :
     StartFails(i) \/ StopFails(i) \/ DeleteFails(i) \/ CreateFails(i) \/ ExportFails(i)
Dispatched ==
  \/ \E crawl \in Crawls : handleStartCrawl(crawl) \/ handleStopCrawl(crawl)
  \/ handleDeleteCrawl
  \/ handleExportParams
  \/ handleSubmitCrawl /\ ValidationError(currentCrawlSpec, crawls) = ""
C8_OneCallOneNotice ==
  [][/\ Dispatched => (OneCallAdded /\ LastCall(calls').op \in CallOps /\ notified' = <<>>)
     /\ Succeeded => (Len(calls') = Len(calls) - 1 /\ OneNotice
                        /\ notified'[1].type = "success")
     /\ Failed => (Len(calls') = Len(calls) - 1 /\ OneNotice
                     /\ notified'[1].type = "error")
     /\ calls' # calls => (Dispatched \/ Succeeded \/ Failed)]_vars
C8_Witness ==
  /\ Len(notified) = 1
  /\ notified[1].title = "Export Started"
  /\ \E i \in 1..Len(calls) : calls[i].op = "create"

\* C9: a delete call for X is issued only by a step taken while the
\* confirmation dialog is open on X; opening the dialog and cancelling it
\* issue no call, emit no notice and leave roster and selection unchanged.
C9_DeleteOnlyAfterConfirm ==
  [][/\ (OneCallAdded /\ LastCall(calls').op = "delete")
          => (deleteDialog.isOpen /\ deleteDialog.crawl = LastCall(calls').target)
     /\ ((\E crawl \in Crawls : openDeleteDialog(crawl)) \/ cancelDeleteDialog)
          => (notified' = <<>> /\ UNCHANGED <<calls, crawls, selectedCrawl>>)]_vars
C9_Witness ==
  \E i \in 1..Len(calls) :
     /\ calls[i].op = "delete"
     /\ deleteDialog.isOpen
     /\ deleteDialog.crawl = calls[i].target

\* C10: the step that handles a failed roster poll changes neither the
\* roster snapshot nor the selection.
C10_FailedPollKeepsRosterAndSelection ==
  [][(\E i \in 1..MaxPolls : PollFails(i)) => UNCHANGED <<crawls, selectedCrawl>>]_vars
C10_Witness ==
  /\ error = FetchError
  /\ crawls # <<>>
  /\ selectedCrawl # Null

\* C11: every step that handles a failed roster poll emits exactly one
\* error notice, also when the previous poll had failed too.
C11_EveryPollFailureNotifies ==
  [][(\E i \in 1..MaxPolls : PollFails(i))
       => (OneNotice /\ notified'[1].type = "error")]_vars

\* C12: a failed poll emits at most one notice, and emits one only when no
\* failure has been recorded since the last successful poll; the recorded
\* failure is erased by a successful poll and by nothing else.
ConnectionNotice == showError("Connection Error", "Failed to fetch crawl data")
C12_OneNoticePerFailureCycle ==
  [][/\ (\E i \in 1..MaxPolls : PollFails(i))
          => (error' # Null /\ Len(notified') <= 1 /\ (notified' # <<>> => error = Null))
     /\ (error # Null /\ error' = Null)
          => (\E i \in 1..MaxPolls, response \in PollResponses : PollSucceeds(i, response))
     /\ (\E k \in 1..Len(notified') : notified'[k] = ConnectionNotice)
          => (\E i \in 1..MaxPolls : PollFails(i))]_vars
\* The only step that leads here is a failed poll that follows a failed poll.
C12_Witness ==
  /\ error = FetchError
  /\ notified = <<>>
  /\ pollsInFlight = <<>>
  /\ interval = "set"
  /\ ~isNewCrawl
  /\ selectedCrawl = Null

\* C13: activation issues exactly one fetch, every timer tick issues exactly
\* one more, no other step issues a fetch, and once the interval is cleared
\* no fetch is issued.
PollsIssued == Len(pollsInFlight') - Len(pollsInFlight)
C13_PollingSchedule ==
  [][/\ Activate => PollsIssued = 1
     /\ Tick => PollsIssued = 1
     /\ PollsIssued > 0 => (Activate \/ Tick)
     /\ interval = "cleared" => PollsIssued <= 0]_vars
C13_Witness ==
  /\ interval = "cleared"
  /\ Len(pollsInFlight) = 2

\* C14: a detail fetch that settles, with a record or with a failure, while
\* the pending selection is another record emits no notice and leaves the
\* pending selection as it is.
Superseded(i) ==
  /\ i \in 1..Len(detailsInFlight)
  /\ selectedRecordId # <<>>
  /\ detailsInFlight[i] # selectedRecordId
DetailSettles(i) ==
  DetailFails(i) \/ (\E records \in DetailResponses(detailsInFlight[i]) : DetailSucceeds(i, records))
C14_SupersededDetailDroppedSilently ==
  [][\A i \in 1..MaxDetails :
       (Superseded(i) /\ DetailSettles(i))
         => (notified' = <<>> /\ selectedRecordId' = selectedRecordId)]_vars

\* C15: when a summaries fetch succeeds, the summary list is the list of the
\* response, no detail record is displayed, no selection is pending and the
\* page index is 1.
C15_SummariesReplaceAndReset ==
  [][\A records \in SummaryResponses :
       SummariesSucceed(records)
         => /\ recordSummaries' = records
            /\ selectedRecord' = Null
            /\ selectedRecordId' = <<>>
            /\ currentPage' = 1]_vars
\* The list was replaced after record r of the earlier list had been clicked.
C15_Witness ==
  /\ recordSummaries = <<SumP, SumQ>>
  /\ <<"r">> \in Range(detailsInFlight)
  /\ selectedRecord = Null
  /\ selectedRecordId = <<>>
  /\ currentPage = 1
  /\ ~resLoading

\* C16: the step that handles a failed summaries fetch leaves the summary
\* list, the displayed detail record, the pending selection, the sort
\* configuration and the page index as they are, emits exactly one error
\* notice and resets the loading flag.
C16_FailedSummariesKeepState ==
  [][SummariesFail
       => /\ UNCHANGED <<recordSummaries, selectedRecord, selectedRecordId, sortConfig,
                         currentPage>>
          /\ OneNotice
          /\ notified'[1].type = "error"
          /\ resLoading' = FALSE]_vars
C16_Witness ==
  /\ notified = <<showError("Fetch Error", "Failed to fetch record summaries")>>
  /\ Len(recordSummaries) > 10
  /\ selectedRecord # Null
  /\ selectedRecordId # <<>>
  /\ sortConfig.key = "id"
  /\ currentPage = 2
  /\ ~resLoading

\* C17: the Clone step issues no gateway call and turns draft mode on with a
\* draft named after the chosen roster entry followed by " (Copy)", whose
\* seeds, analyzer specs, worker count and domain blacklist equal the
\* entry's.
ClonedFrom(source, draft) ==
  /\ draft.name = source.name \o <<" ", "(", "C", "o", "p", "y", ")">>
  /\ draft.seeds = source.seeds
  /\ draft.analyzer_specs = source.analyzer_specs
  /\ draft.worker_count = source.worker_count
  /\ draft.domain_blacklist = source.domain_blacklist
C17_CloneMakesRenamedDraft ==
  [][handleClone
       => /\ UNCHANGED <<calls, pollsInFlight, summariesInFlight, detailsInFlight>>
          /\ isNewCrawl'
          /\ \E crawl \in Range(crawls) :
                IdOf(crawl) = selectedCrawlId /\ ClonedFrom(crawl.crawl_spec, newCrawlSpec')]_vars
C17_Witness ==
  /\ isNewCrawl
  /\ ~isCloneModalOpen
  /\ notified = <<showSuccess("Crawl Cloned", CrawlZ.crawl_spec.name)>>
  /\ ClonedFrom(CrawlZ.crawl_spec, newCrawlSpec)
  /\ Len(newCrawlSpec.seeds) = 2 /\ Len(newCrawlSpec.analyzer_specs) = 2

\* C19: every editor operation yields the draft as it was immediately before
\* with the operation applied: a general-settings, seed or analyzer operation
\* changes its own field and no other field of the draft.
SpecFields == {"name", "seeds", "analyzer_specs", "worker_count", "domain_blacklist"}
OnlyChanges(field) == \A f \in SpecFields \ {field} : newCrawlSpec'[f] = newCrawlSpec[f]
SeedOperation ==
  \/ handleAddUrl
  \/ \E index \in 1..(MaxSeeds + 2) : handleUrlChange(index, "w") \/ handleRemoveUrl(index)
  \/ handleAddSearchUrls(<<"u", "w">>)
AnalyzerOperation ==
  \/ \E type \in {"Keyword", "Regex"} :
        handleAddTerm([type |-> type, term |-> <<"t">>, matchCase |-> FALSE, weight |-> 1])
  \/ \E type \in {"keyword", "regex"}, index \in 1..MaxTerms : handleRemoveTerm(type, index)
  \/ handlePromptChange("q")
  \/ \E analyzerName \in {"KeywordScoreAnalyzer", "DhLlmScoreAnalyzer"} :
        handleCompositeWeightChange(analyzerName, 2)
  \/ handleAddOutputField([name |-> <<"f">>, type |-> "int"])
  \/ \E fieldName \in {ScoreField, <<"f">>} : handleRemoveOutputField(fieldName)
C19_EditsApplyInOrder ==
  [][/\ handleNameChange(<<"c">>) => newCrawlSpec' = [newCrawlSpec EXCEPT !.name = <<"c">>]
     /\ handleWorkerCountChange(2) => newCrawlSpec' = [newCrawlSpec EXCEPT !.worker_count = 2]
     /\ handleAddUrl => newCrawlSpec' = [newCrawlSpec EXCEPT !.seeds = Append(@, "")]
     /\ SeedOperation => OnlyChanges("seeds")
     /\ AnalyzerOperation => OnlyChanges("analyzer_specs")]_vars
C19_Witness ==
  /\ isNewCrawl
  /\ newCrawlSpec.name = <<"c">>
  /\ newCrawlSpec.worker_count = 2
  /\ newCrawlSpec.seeds = <<"w">>
  /\ Len(newCrawlSpec.analyzer_specs) = 2
  /\ newCrawlSpec.domain_blacklist = <<>>

\* C20: no step turns a draft with pairwise distinct analyzer names into one
\* with a repeated name; an analyzer operation on a name the draft holds
\* replaces that entry where it stands and keeps every other entry and the
\* order, and on a new name appends one entry.
UniqueNames(specs) ==
  \A i, j \in 1..Len(specs) : specs[i].name = specs[j].name => i = j
ReplacedInPlace(old, new) ==
  /\ Len(new) = Len(old)
  /\ \E i \in 1..Len(old) :
        /\ new[i].name = old[i].name
        /\ \A j \in 1..Len(old) : j # i => new[j] = old[j]
AppendedOne(old, new) ==
  /\ Len(new) = Len(old) + 1
  /\ SubSeq(new, 1, Len(old)) = old
  /\ \A j \in 1..Len(old) : old[j].name # new[Len(new)].name
C20_AnalyzerNamesStayUnique ==
  [][UniqueNames(newCrawlSpec.analyzer_specs)
       => /\ UniqueNames(newCrawlSpec'.analyzer_specs)
          /\ AnalyzerOperation
               => \/ ReplacedInPlace(newCrawlSpec.analyzer_specs, newCrawlSpec'.analyzer_specs)
                  \/ AppendedOne(newCrawlSpec.analyzer_specs, newCrawlSpec'.analyzer_specs)]_vars
C20_Witness ==
  /\ isNewCrawl
  /\ Len(newCrawlSpec.analyzer_specs) = 2
  /\ newCrawlSpec.analyzer_specs[1].name = "KeywordScoreAnalyzer"
  /\ newCrawlSpec.analyzer_specs[1].composite_weight = 2
  /\ Len(newCrawlSpec.analyzer_specs[1].keywords) = 1
  /\ newCrawlSpec.analyzer_specs[2].name = "DhLlmScoreAnalyzer"
  /\ newCrawlSpec.analyzer_specs[2].prompt_input.prompt = "q"

\* C18: copy-on-write.  No editing operation changes an object or array that
\* existed before it ran (every draft produced earlier, and the arrays and
\* analyzers it refers to, keep their contents), and in particular the
\* crawl spec of the roster entry a draft was cloned from keeps its value
\* through every edit of the clone.
C18_EditsCopyBeforeWriting ==
  [][/\ Len(heap') >= Len(heap)
     /\ \A ref \in 1..Len(heap) : heap'[ref] = heap[ref]
     /\ SpecValue(heap', SourceRef) = SpecValue(heap, SourceRef)]_vars
\* A clone of the roster entry whose first seed and whose keyword analyzer
\* weight were both edited: the draft no longer shares those objects.
C18_Witness ==
  /\ draftRef # 0
  /\ heap[draftRef].name = heap[SourceRef].name \o CopySuffix
  /\ heap[draftRef].seeds # heap[SourceRef].seeds
  /\ SpecValue(heap, draftRef).seeds = <<"w", "v">>
  /\ SpecValue(heap, draftRef).analyzer_specs[1].composite_weight = 2
  /\ SpecValue(heap, SourceRef).analyzer_specs[1].composite_weight = 3

\* C21 as stated: showing an analyzer panel leaves the draft as it was, the
\* analyzer shown is the analyzer of that name in the specification in hand
\* (the draft, or the specification of the viewed entry) when there is one and
\* otherwise a default with composite weight 1 and an empty payload (no
\* keywords, regexes, prompt, text inputs or output fields), and the draft's
\* analyzer list changes only in a step of an analyzer operation (or when a
\* new draft replaces it).
PanelName(analyzer) ==
  IF analyzer = "Term Matching" THEN "KeywordScoreAnalyzer" ELSE "DhLlmScoreAnalyzer"
EmptyPayload(a) ==
  /\ \A f \in DOMAIN a \cap {"keywords", "regexes", "text_inputs"} : a[f] = <<>>
  /\ "prompt_input" \in DOMAIN a => a.prompt_input.prompt = ""
  /\ "field_map" \in DOMAIN a => DOMAIN a.field_map = {}
StoredOr(shown, name, isDefault) ==
  LET specs == Val(currentCrawlSpec).analyzer_specs
  IN IF \E i \in 1..Len(specs) : specs[i].name = name
     THEN \E i \in 1..Len(specs) : specs[i].name = name /\ shown = specs[i]
     ELSE shown.name = name /\ shown.composite_weight = 1 /\ isDefault
ListChangesOnlyOnCommit ==
  newCrawlSpec'.analyzer_specs # newCrawlSpec.analyzer_specs
    => AnalyzerOperation \/ handleNewCrawl
C21_ViewShowsStoredOrEmptyDefault ==
  [][/\ \A analyzer \in {"Term Matching", "DH LLM Prompt"} :
          setSelectedAnalyzer(analyzer)
            => /\ newCrawlSpec' = newCrawlSpec
               /\ StoredOr(currentAnalyzer', PanelName(analyzer),
                           EmptyPayload(currentAnalyzer'))
     /\ ListChangesOnlyOnCommit]_vars
\* C21 as amended: the same, the default of the prompt scorer being an empty
\* prompt, no text inputs and the output map { Score: string }, and the
\* default of the keyword matcher no keywords and no regexes.
C21_ViewShowsStoredOrDefault ==
  [][/\ \A analyzer \in {"Term Matching", "DH LLM Prompt"} :
          setSelectedAnalyzer(analyzer)
            => /\ newCrawlSpec' = newCrawlSpec
               /\ StoredOr(currentAnalyzer', PanelName(analyzer),
                     IF analyzer = "Term Matching"
                     THEN currentAnalyzer' =
                            [name |-> "KeywordScoreAnalyzer", composite_weight |-> 1,
                             keywords |-> <<>>, regexes |-> <<>>]
                     ELSE currentAnalyzer' =
                            [name |-> "DhLlmScoreAnalyzer", composite_weight |-> 1,
                             prompt_input |-> [prompt |-> ""], text_inputs |-> <<>>,
                             field_map |-> [k \in {<<"S", "c", "o", "r", "e">>} |-> "string"]])
     /\ ListChangesOnlyOnCommit]_vars
\* The prompt panel is shown for a draft that holds a keyword analyzer and no
\* prompt analyzer.
C21_Witness ==
  /\ isNewCrawl
  /\ activeTab = "analyzers"
  /\ selectedAnalyzer = "DH LLM Prompt"
  /\ Len(newCrawlSpec.analyzer_specs) = 1
  /\ newCrawlSpec.analyzer_specs[1].name = "KeywordScoreAnalyzer"

\* C22: a submitted specification is never edited.  Every editor operation
\* (general settings, seeds, analyzers) runs in draft mode only; while a
\* roster entry is viewed, no step changes the specification of the viewed
\* entry, and the stored draft changes only when a new draft replaces it.
Viewing == ~isNewCrawl /\ selectedCrawl # Null
EditorOperation ==
  \/ handleNameChange(<<"c">>)
  \/ handleWorkerCountChange(2)
  \/ SeedOperation
  \/ AnalyzerOperation
C22_SubmittedSpecNeverEdited ==
  [][/\ EditorOperation => isNewCrawl
     /\ Viewing
          => /\ newCrawlSpec' # newCrawlSpec => handleNewCrawl
             /\ selectedCrawl' # Null
                  => Val(selectedCrawl').crawl_spec = Val(selectedCrawl).crawl_spec
             /\ crawls' = crawls]_vars
\* A roster entry is viewed on the sources tab while an edited draft is
\* stored.
C22_Witness ==
  /\ Viewing
  /\ activeTab = "sources"
  /\ Len(Val(selectedCrawl).crawl_spec.seeds) = 2
  /\ newCrawlSpec.seeds = <<"w">>

\* C23: the roster snapshot changes only in a step that applies a successful
\* roster poll, and is then the list of that response; no dispatch and no
\* completion (success or failure) of create, start, stop, delete, export or
\* clone changes it.
CommandStep ==
  \/ \E crawl \in Crawls : handleStartCrawl(crawl) \/ handleStopCrawl(crawl)
  \/ handleDeleteCrawl
  \/ handleSubmitCrawl
  \/ handleExportParams
  \/ handleClone
  \/ \E i \in 1..Len(calls) :
        \/ StartSucceeds(i) \/ StartFails(i)
        \/ StopSucceeds(i) \/ StopFails(i)
        \/ DeleteSucceeds(i) \/ DeleteFails(i)
        \/ CreateSucceeds(i) \/ CreateFails(i)
        \/ ExportSucceeds(i) \/ ExportFails(i)
C23_RosterChangesOnlyOnPoll ==
  [][/\ crawls' # crawls
          => \E i \in 1..Len(pollsInFlight), response \in PollResponses :
                PollSucceeds(i, response) /\ crawls' = response
     /\ CommandStep => crawls' = crawls]_vars
\* The delete of x has succeeded and x is still in the roster.
C23_Witness ==
  /\ notified = <<showSuccess("Crawl Deleted", "Successfully deleted crawl")>>
  /\ deleteDialog = DialogClosed
  /\ \E k \in 1..Len(crawls) : IdOf(crawls[k]) = "x"

\* C24: the step that handles the transport failure of a create, start, stop,
\* delete or export command changes neither the draft, draft mode, the
\* roster, the selection nor the confirmation dialog, and neither does the
\* step that dispatched the command; so a failed create leaves draft mode
\* with its draft and a failed delete leaves the dialog on its target.
CommandFails(i) ==
  StartFails(i) \/ StopFails(i) \/ DeleteFails(i) \/ CreateFails(i) \/ ExportFails(i)
CommandDispatch ==
  \/ \E crawl \in Crawls : handleStartCrawl(crawl) \/ handleStopCrawl(crawl)
  \/ handleDeleteCrawl
  \/ handleSubmitCrawl
  \/ handleExportParams
C24_FailedCommandKeepsState ==
  [][/\ \A i \in 1..Len(calls) :
          CommandFails(i)
            => UNCHANGED <<newCrawlSpec, isNewCrawl, crawls, selectedCrawl, deleteDialog>>
     /\ CommandDispatch
          => UNCHANGED <<newCrawlSpec, isNewCrawl, crawls, selectedCrawl, deleteDialog>>]_vars
\* A create has just failed: draft mode is active with the cloned draft.
C24_Witness ==
  /\ notified = <<showError("Creation Failed", "Failed to create crawl")>>
  /\ isNewCrawl
  /\ newCrawlSpec = [CrawlX.crawl_spec EXCEPT !.name = @ \o CopySuffix]
  /\ calls = <<>>

\* C25: failures are isolated.  The step that handles a failed poll or a
\* failed command leaves the interval timer as it was and every other
\* operation in flight (polls and command calls) as it was; when the timer is
\* set after a failure, the next tick can issue its fetch; and a successful
\* poll installs the list of its response and clears the error state.
C25_FailuresAreIsolated ==
  [][/\ \A i \in 1..Len(pollsInFlight) :
          PollFails(i)
            => /\ interval' = interval
               /\ calls' = calls
               /\ pollsInFlight' = RemoveAt(pollsInFlight, i)
               /\ interval = "set" /\ Len(pollsInFlight') < MaxPolls => (ENABLED Tick)'
     /\ \A i \in 1..Len(calls) :
          CommandFails(i)
            => /\ interval' = interval
               /\ pollsInFlight' = pollsInFlight
               /\ calls' = RemoveAt(calls, i)
               /\ interval = "set" /\ Len(pollsInFlight') < MaxPolls => (ENABLED Tick)'
     /\ \A i \in 1..Len(pollsInFlight), response \in PollResponses :
          PollSucceeds(i, response) => crawls' = response /\ error' = Null]_vars
\* A poll has failed and a command has then failed while another poll and
\* another command are in flight and the timer is set.
C25_Witness ==
  /\ error = FetchError
  /\ interval = "set"
  /\ Len(pollsInFlight) = 1
  /\ Len(calls) = 1
  /\ notified # <<>>
  /\ notified[1].title \in {"Start Failed", "Stop Failed", "Delete Failed",
                             "Creation Failed", "Export Failed"}

\* C26: sort(key) with the active key flips the direction (asc to desc, desc
\* to asc), so a second sort of the same key restores the configuration;
\* sort(key) with another key selects that key, ascending; a sort issues no
\* request and changes neither the summary list nor the roster.
Flipped(direction) == IF direction = "asc" THEN "desc" ELSE "asc"
C26_SortToggles ==
  [][\A key \in SortKeys :
       handleSort(key)
         => /\ sortConfig.direction \in {"asc", "desc"}
            /\ sortConfig'.key = key
            /\ sortConfig'.direction =
                 IF key = sortConfig.key THEN Flipped(sortConfig.direction) ELSE "asc"
            /\ Flipped(Flipped(sortConfig.direction)) = sortConfig.direction
            /\ UNCHANGED <<recordSummaries, crawls, calls, pollsInFlight,
                           summariesInFlight, detailsInFlight>>]_vars
\* The url column was sorted twice over a loaded list: url, descending.
C26_Witness ==
  /\ sortConfig = [key |-> "url", direction |-> "desc"]
  /\ Len(recordSummaries) > 1

\* C27: for every summary list, the view sorted by score descending is the
\* exact reverse of the view sorted by score ascending, ties included; the
\* sorted view holds the elements of the summary list, each as often as the
\* list does.
Reversed(s) == [i \in 1..Len(s) |-> s[Len(s) + 1 - i]]
Occurrences(s, x) == Cardinality({i \in 1..Len(s) : s[i] = x})
C27_DescendingReversesAscending ==
  LET ascending == sortRecordsBy([key |-> "score", direction |-> "asc"], recordSummaries)
      descending == sortRecordsBy([key |-> "score", direction |-> "desc"], recordSummaries)
  IN /\ descending = Reversed(ascending)
     /\ Len(sortedRecords) = Len(recordSummaries)
     /\ \A x \in Range(recordSummaries) :
          Occurrences(sortedRecords, x) = Occurrences(recordSummaries, x)

\* C28 as stated: the page index lies in [1, ceil(n / pageSize)] for a summary
\* list of length n, n = 0 included; a requested page below the range
\* becomes the first page and one above it the last; the page index is 1
\* after the summary list is replaced and after the page size changes.
CeilDiv(n, s) == IF n % s = 0 THEN n \div s ELSE (n \div s) + 1
LastPage == CeilDiv(Len(recordSummaries), rowsPerPage)
Clamped(page, last) == IF page < 1 THEN 1 ELSE IF page > last THEN last ELSE page
PageResets ==
  /\ recordSummaries' # recordSummaries => currentPage' = 1
  /\ (\E records \in {<<>>, SubSeq(Sum23, 1, 11), Sum23} : SummariesSucceed(records)) => currentPage' = 1
  /\ rowsPerPage' # rowsPerPage => currentPage' = 1
C28_PageIndexInRange ==
  [][/\ currentPage \in 1..LastPage
     /\ currentPage' \in 1..LastPage'
     /\ \A page \in {0, 1, 2, 3, 99} :
          handlePageChange(page) => currentPage' = Clamped(page, LastPage)
     /\ PageResets]_vars
\* C28 as amended: the same with the range [1, max(1, ceil(n / pageSize))],
\* which is page 1 alone for an empty list.
C28_PageIndexInRangeOrFirst ==
  [][/\ currentPage \in 1..Max(1, LastPage)
     /\ currentPage' \in 1..Max(1, LastPage')
     /\ \A page \in {0, 1, 2, 3, 99} :
          handlePageChange(page) => currentPage' = Clamped(page, Max(1, LastPage))
     /\ PageResets]_vars
\* Page 3 of 23 summaries in pages of ten is shown.
C28_Witness ==
  /\ Len(recordSummaries) = 23
  /\ rowsPerPage = 10
  /\ currentPage = 3

\* C29: with n sorted summaries and page size s, the page shown for page
\* index p holds the elements at the zero-based indices (p-1)*s up to
\* min(p*s, n) - 1 of the sorted list, in that order, so the pages
\* 1..ceil(n/s) one after the other are the sorted list; for n = 23 and
\* s = 10 page 1 holds indices 0-9 and page 3 holds indices 20-22, and a
\* request for page 0 gives page 1 and a request for page 99 gives page 3.
PageAt(sorted, p) ==
  [k \in 1..Max(0, Min(p * rowsPerPage, Len(sorted)) - (p - 1) * rowsPerPage) |->
     sorted[(p - 1) * rowsPerPage + k]]
RECURSIVE PagesUpTo(_, _)
PagesUpTo(sorted, p) ==
  IF p = 0 THEN <<>> ELSE PagesUpTo(sorted, p - 1) \o PageAt(sorted, p)
C29_PageContents ==
  [][LET sorted == sortedRecords IN
     /\ currentRecords = PageAt(sorted, currentPage)
     /\ PagesUpTo(sorted, CeilDiv(Len(sorted), rowsPerPage)) = sorted
     /\ Len(recordSummaries) = 23 /\ rowsPerPage = 10
          => /\ currentPage = 1 => currentRecords = SubSeq(sorted, 1, 10)
             /\ currentPage = 3 => currentRecords = SubSeq(sorted, 21, 23)
             /\ handlePageChange(0) => currentPage' = 1
             /\ handlePageChange(99) => currentPage' = 3]_vars
\* The last page of 23 summaries in pages of ten shows three rows.
C29_Witness ==
  /\ Len(recordSummaries) = 23
  /\ rowsPerPage = 10
  /\ currentPage = 3
  /\ Len(currentRecords) = 3
  /\ sortConfig.direction = "asc"

\* C30: the New Crawl button always ends in draft mode with the empty
\* default draft (empty name, no seeds, no analyzers, worker count 1, empty
\* blacklist) and with no crawl selected, whatever clone, edit or failed
\* submission came before it.
C30_NewCrawlGivesEmptyDraft ==
  [][handleNewCrawl
       => /\ isNewCrawl'
          /\ selectedCrawl' = Null
          /\ newCrawlSpec'.name = <<>>
          /\ newCrawlSpec'.seeds = <<>>
          /\ newCrawlSpec'.analyzer_specs = <<>>
          /\ newCrawlSpec'.worker_count = 1
          /\ newCrawlSpec'.domain_blacklist = <<>>]_vars
\* The empty draft is in hand while the submission of a renamed clone, made
\* before the button was pressed, is still in flight.
C30_Witness ==
  /\ isNewCrawl
  /\ selectedCrawl = Null
  /\ newCrawlSpec.name = <<>>
  /\ newCrawlSpec.seeds = <<>>
  /\ \E i \in 1..Len(calls) :
        /\ IsCall(i, "create")
        /\ Val(calls[i].spec).name = <<"c">>
        /\ Val(calls[i].spec).seeds = CrawlX.crawl_spec.seeds

\* C31: the step that handles a successful create leaves draft mode, leaves
\* no roster entry selected and does not touch the roster; the roster gets
\* the crawl that was created only in the step of a successful poll.
C31_CreateReturnsToRoster ==
  [][/\ \A i \in 1..Len(calls) :
          CreateSucceeds(i)
            => /\ ~isNewCrawl'
               /\ selectedCrawl' = Null
               /\ crawls' = crawls
     /\ crawls' # crawls
          => \E i \in 1..Len(pollsInFlight) : PollSucceeds(i, crawls')]_vars
\* The create of the cloned draft has just succeeded while the roster,
\* polled before, does not hold a crawl of the draft's name.
C31_Witness ==
  /\ notified = <<showSuccess("Crawl Created", "Successfully created crawl")>>
  /\ ~isNewCrawl
  /\ selectedCrawl = Null
  /\ crawls # <<>>
  /\ newCrawlSpec.name = CrawlX.crawl_spec.name \o CopySuffix
  /\ \A k \in 1..Len(crawls) : crawls[k].crawl_spec.name # newCrawlSpec.name

\* C32: the download of an export is named after the filename parameter of
\* the response's content-disposition header, double quotes removed, when the
\* header has such a parameter with a value, and crawl_spec_<id>.json when
\* the response has no such header or the header has no filename.
\* The parameters of a header are its parts between semicolons, leading
\* blanks dropped.
RECURSIVE Parameters(_, _)
Parameters(text, part) ==
  IF text = <<>> THEN <<part>>
  ELSE IF Head(text) = ";" THEN <<part>> \o Parameters(Tail(text), <<>>)
  ELSE IF Head(text) = " " /\ part = <<>> THEN Parameters(Tail(text), part)
  ELSE Parameters(Tail(text), Append(part, Head(text)))
HasKey(parameter) ==
  /\ Len(parameter) >= Len(FilenameKey)
  /\ SubSeq(parameter, 1, Len(FilenameKey)) = FilenameKey
FilenameOf(header) ==
  LET parameters == Parameters(header, <<>>)
      named == { k \in 1..Len(parameters) :
                   /\ HasKey(parameters[k])
                   /\ \E c \in 1..Len(parameters[k]) :
                         c > Len(FilenameKey) /\ parameters[k][c] # Quote }
  IN IF named = {} THEN Null
     ELSE LET k == CHOOSE j \in named : \A l \in named : j <= l
          IN Some(SelectSeq(SubSeq(parameters[k], Len(FilenameKey) + 1, Len(parameters[k])),
                            LAMBDA c : c # Quote))
C32_ExportFilename ==
  download # Null
    => LET d == Val(download)
           carried == IF d.contentDisposition = Null THEN Null
                      ELSE FilenameOf(Val(d.contentDisposition))
       IN d.filename = IF carried # Null THEN Val(carried)
                       ELSE SpecPrefix \o <<d.crawlId>> \o JsonSuffix

\* C33: draft mode and a roster selection exclude each other in every
\* reachable state, so the specification handed to the editors is the draft
\* in draft mode, the specification of the selected entry when an entry is
\* selected, and none otherwise.
C33_DraftExcludesSelection ==
  /\ ~(isNewCrawl /\ selectedCrawl # Null)
  /\ isNewCrawl => currentCrawlSpec = Some(newCrawlSpec)
  /\ selectedCrawl # Null => currentCrawlSpec = Some(Val(selectedCrawl).crawl_spec)
  /\ ~isNewCrawl /\ selectedCrawl = Null => currentCrawlSpec = Null
\* A row is selected after a clone had started a draft: the editors show the
\* selected entry, the cloned draft is still stored.
C33_Witness ==
  /\ selectedCrawl = Some(CrawlX)
  /\ ~isNewCrawl
  /\ newCrawlSpec.name = CrawlX.crawl_spec.name \o CopySuffix
  /\ currentCrawlSpec = Some(CrawlX.crawl_spec)

\* C34: roster snapshots never regress.  While the timer is set a tick can
\* issue a poll whether or not earlier polls are still in flight, and the
\* response of a poll that was issued before a poll whose response has been
\* applied already does not replace the roster.
C34_SnapshotsNeverRegress ==
  [][/\ interval = "set" /\ Len(pollsInFlight) < MaxPolls => ENABLED Tick
     /\ \A i \in 1..Len(pollsInFlight), response \in PollResponses :
          PollSucceeds(i, response) /\ pollsInFlight[i].superseded
            => crawls' = crawls]_vars

\* C35: after a reload of the summary list has cleared the displayed detail
\* and the marked row, the displayed detail stays empty until a row is
\* selected again: the response of a detail fetch that is still in flight
\* from before the reload does not display its record.
C35_DetailStaysEmptyAfterReload ==
  [][\A i \in 1..Len(detailsInFlight) :
       \A records \in DetailResponses(detailsInFlight[i]) :
         /\ selectedRecord = Null
         /\ selectedRecordId = <<>>
         /\ DetailSucceeds(i, records)
         => selectedRecord' = Null]_vars

\* C36: displayed-detail consistency.  A detail record that is displayed has
\* the id of the marked row; stated for the step that handles a failed detail
\* fetch: it does not leave a record displayed while no row or another row
\* is marked.
C36_DisplayedDetailIsSelection ==
  [][\A i \in 1..Len(detailsInFlight) :
       DetailFails(i)
         => (selectedRecord' # Null => Val(selectedRecord').id = selectedRecordId')]_vars

\* C37: every create call that is issued carries a seed list with at least
\* one seed URL that is not empty; a draft whose seed rows are all empty is
\* turned down by the submit step with a validation notice and no call.
C37_CreateCarriesSeed ==
  [][handleSubmitCrawl
       => LET seeds == newCrawlSpec.seeds
          IN IF \E k \in 1..Len(seeds) : seeds[k] # ""
             THEN calls' # calls
                    => \E k \in 1..Len(Val(LastCall(calls').spec).seeds) :
                          Val(LastCall(calls').spec).seeds[k] # ""
             ELSE /\ calls' = calls
                  /\ Len(notified') = 1
                  /\ notified'[1].title = "Validation Error"]_vars

\* C38: no create call is issued with a name that equals, up to letter case,
\* the name of a crawl this client has created already, also when no poll
\* has brought that crawl into the roster yet.  The crawl named "c" has been
\* created in the initial state.
C38_NoSecondCreateOfName ==
  [][handleSubmitCrawl /\ calls' # calls
       => toLowerCase(Val(LastCall(calls').spec).name) # CrawlC.crawl_spec.name]_vars

\* C39: the step that handles a successful create does not undo what the
\* user did while the call was in flight: a roster entry selected since the
\* dispatch stays selected, and a new draft started since the dispatch stays
\* active.
C39_CreateKeepsLaterNavigation ==
  [][\A i \in 1..Len(calls) :
       CreateSucceeds(i)
         => /\ selectedCrawl # Null => selectedCrawl' = selectedCrawl
            /\ isNewCrawl /\ newCrawlSpec = EmptySpec => isNewCrawl']_vars

====
